---- MODULE Spec2Model ----
(***************************************************************************)
(* Model of the page layout engine of immich-book                          *)
(* (src/src/utils/pageLayout.ts, calculatePageLayout) and of the state of  *)
(* the component that drives it (src/src/components/PhotoGrid.tsx), of the *)
(* App component around it (src/unnamed/part_001) and of the row heights   *)
(* set by hand in an earlier PhotoGrid (src/unnamed/part_006).             *)
(*                                                                         *)
(* Lengths are counted in half pixels, so that the one real division of    *)
(* the code, availableSpace / 2, is exact on whole-pixel inputs: Px(n) is  *)
(* n pixels.  The row packer (@immich/justified-layout-wasm) is an         *)
(* external library; the value of justifiedLayout.getPosition(i) is drawn  *)
(* from the boxes its contract allows.                                     *)
(***************************************************************************)
EXTENDS Integers, Sequences, FiniteSets, TLC

\* the state of one invocation of calculatePageLayout
VARIABLES assets, options, strip, pages, currentPage, currentPageY, i,
          prePages, result, pc

\* the state of the PhotoGrid component and of the browser's localStorage
VARIABLES gridAsset, settings, customAspectRatios, customOrdering,
          descriptionPositions, adjustedAspectRatios, aspectRatio, photoBox,
          rendered, aspectDragState, localStorage, initialConfig, album,
          phase

layoutVars == <<assets, options, strip, pages, currentPage, currentPageY, i,
                prePages, result, pc>>

gridVars == <<gridAsset, settings, customAspectRatios, customOrdering,
              descriptionPositions, adjustedAspectRatios, aspectRatio, photoBox,
              rendered, aspectDragState, localStorage, initialConfig, album,
              phase>>

\* the reordering of the photos by drag and drop (PhotoGrid), the state of the
\* App component with its requests in flight, and the rows of the layout whose
\* heights are overridden by hand
VARIABLES reorderDragState, dropTargetIndex, dragSession,
          immichConfig, selectedAlbum, isLoadingAlbum, pendingLoads, appStorage,
          rowPages, adjustedPages, dragState

reorderVars == <<reorderDragState, dropTargetIndex, dragSession>>

appVars == <<immichConfig, selectedAlbum, isLoadingAlbum, pendingLoads, appStorage>>

rowVars == <<rowPages, adjustedPages, dragState>>

otherVars == <<reorderVars, appVars, rowVars>>

vars == <<layoutVars, gridVars, otherVars>>

\* ---------------------------------------------------------------- bounds
\* the asset list holds up to MaxAssets assets; margin and spacing are 0 or
\* their maximum; a packed box is 1 or MaxBoxWidth pixels wide and 1 to
\* MaxRowHeight pixels high; pages 1 .. MaxAlignedPage may carry an
\* alignment; the page is CustomWidthPx x CustomHeightPx pixels.
MaxAssets == 3
MaxMargin == 1
MaxSpacing == 1
MaxRowHeight == 2
MaxBoxWidth == 2
MaxAlignedPage == 2
CustomWidthPx == 4
CustomHeightPx == 3

\* ----------------------------------------------------------------- units
Px(n) == 2 * n

OnePixel == Px(1)

Half(v) == v \div 2

\* Math.round(mm * 11.811023622047244), the factor being 300 / 25.4;
\* mm is given in tenths of a millimetre, the result in pixels.
mmToPixels(mm10) == (mm10 * 600 + 254) \div 508

PAGE_SIZES ==
  [A4     |-> [portrait  |-> [width |-> Px(mmToPixels(2100)), height |-> Px(mmToPixels(2970))],
               landscape |-> [width |-> Px(mmToPixels(2970)), height |-> Px(mmToPixels(2100))]],
   LETTER |-> [portrait  |-> [width |-> Px(mmToPixels(2159)), height |-> Px(mmToPixels(2794))],
               landscape |-> [width |-> Px(mmToPixels(2794)), height |-> Px(mmToPixels(2159))]],
   A3     |-> [portrait  |-> [width |-> Px(mmToPixels(2970)), height |-> Px(mmToPixels(4200))],
               landscape |-> [width |-> Px(mmToPixels(4200)), height |-> Px(mmToPixels(2970))]]]

PageAlignment == {"left", "center", "right"}

\* ------------------------------------------------------------ the inputs
\* options.pageAlignments: undefined, or a Map from page number to alignment
NoPageAlignments == [defined |-> FALSE, map |-> << >>]

PageAlignmentMaps ==
  UNION { { [defined |-> TRUE, map |-> m] : m \in [D -> PageAlignment] }
          : D \in SUBSET (1 .. MaxAlignedPage) }

LayoutOptions ==
  [pageSize       : {"CUSTOM"},
   orientation    : {"portrait"},
   margin         : { 0, Px(MaxMargin) },
   rowHeight      : { Px(MaxRowHeight) },
   spacing        : { 0, Px(MaxSpacing) },
   customWidth    : { Px(CustomWidthPx) },
   customHeight   : { Px(CustomHeightPx) },
   combinePages   : BOOLEAN,
   pageAlignments : {NoPageAlignments} \cup PageAlignmentMaps]

\* ------------------------------------------------- page dimensions, content
\* fault variant of PageDimensions: custom dimensions win over a named size
PageDimensions_CustomFirst(o) ==
  IF o.customWidth # 0 /\ o.customHeight # 0
  THEN [width |-> o.customWidth, height |-> o.customHeight]
  ELSE IF o.pageSize # "CUSTOM"
       THEN PAGE_SIZES[o.pageSize][o.orientation]
       ELSE PAGE_SIZES.A4.portrait

\* customWidth and customHeight are 0 when they are not given
PageDimensions(o) ==
  IF o.pageSize = "CUSTOM" /\ o.customWidth # 0 /\ o.customHeight # 0
  THEN [width |-> o.customWidth, height |-> o.customHeight]
  ELSE IF o.pageSize # "CUSTOM"
       THEN PAGE_SIZES[o.pageSize][o.orientation]
       ELSE PAGE_SIZES.A4.portrait

contentWidth(o) == PageDimensions(o).width - o.margin * 2

contentHeight(o) == PageDimensions(o).height - o.margin * 2

\* ------------------------------------------------------------ row packer
\* The boxes justifiedLayout.getPosition(k) may return for the next item,
\* given the boxes of the items before it: the item continues the open row
\* (same top and height, to the right of the last box) when it fits in the
\* row width, or opens the next row below it.  Rows are at most rowHeight
\* high (heightTolerance 0) and never wider than rowWidth; a box is one pixel
\* or MaxBoxWidth pixels wide and a row one pixel or rowHeight high.
getPosition(s, o) ==
  LET widths  == { Px(1), Px(MaxBoxWidth) }
      heights == { Px(1), o.rowHeight }
      last    == s[Len(s)]
      newTop  == IF Len(s) = 0 THEN 0 ELSE last.top + last.height + o.spacing
      newRow  == { [top |-> newTop, left |-> 0, width |-> w, height |-> h]
                   : w \in { v \in widths : v <= contentWidth(o) }, h \in heights }
      sameRow == IF Len(s) = 0 THEN {}
                 ELSE { [top |-> last.top, left |-> last.left + last.width + o.spacing,
                         width |-> w, height |-> last.height]
                        : w \in { v \in widths :
                                    last.left + last.width + o.spacing + v <= contentWidth(o) } }
  IN  newRow \cup sameRow

\* -------------------------------------------------------------- paginator
EmptyPage(pageNumber, o) ==
  [pageNumber |-> pageNumber, photos |-> << >>,
   width |-> PageDimensions(o).width, height |-> PageDimensions(o).height]

\* fault variants of StartsNewPage: without the non-empty guard, and with >=
StartsNewPage_NoEmptyGuard(photoCount, photoBottom, pageY, o) ==
  photoBottom - pageY > contentHeight(o)

StartsNewPage_NotStrict(photoCount, photoBottom, pageY, o) ==
  photoCount > 0 /\ photoBottom - pageY >= contentHeight(o)

StartsNewPage(photoCount, photoBottom, pageY, o) ==
  photoCount > 0 /\ photoBottom - pageY > contentHeight(o)

\* fault variant of NextPageNumber: pages.length
NextPageNumber_OffByOne(ps) == Len(ps)

NextPageNumber(ps) == Len(ps) + 1

\* fault variant of PhotoBox: y is not re-based to the page
PhotoBox_NoRebase(asset, box, pageY, o) ==
  [asset |-> asset, x |-> box.left + o.margin, y |-> box.top + o.margin,
   width |-> box.width, height |-> box.height]

\* fault variant of PhotoBox: x is not moved by the margin
PhotoBox_NoMarginX(asset, box, pageY, o) ==
  [asset |-> asset, x |-> box.left, y |-> box.top - pageY + o.margin,
   width |-> box.width, height |-> box.height]

PhotoBox(asset, box, pageY, o) ==
  [asset |-> asset, x |-> box.left + o.margin, y |-> box.top - pageY + o.margin,
   width |-> box.width, height |-> box.height]

\* currentPage before the function has assigned it
NoPage == [pageNumber |-> 0, photos |-> << >>, width |-> 0, height |-> 0]

LayoutInit ==
  /\ assets \in { [k \in 1 .. n |-> k] : n \in 0 .. MaxAssets }
  /\ options \in LayoutOptions
  /\ strip = << >>
  /\ pages = << >>
  /\ currentPage = NoPage
  /\ currentPageY = 0
  /\ i = 0
  /\ prePages = << >>
  /\ result = << >>
  /\ pc = "start"

\* if (assets.length === 0) return [];
ReturnEmpty ==
  /\ pc = "start"
  /\ Len(assets) = 0
  /\ result' = << >>
  /\ pc' = "done"
  /\ UNCHANGED <<assets, options, strip, pages, currentPage, currentPageY, i, prePages, gridVars, otherVars>>

\* pages = [], currentPage = page 1, currentPageY = 0, i = 0
BeginLayout ==
  /\ pc = "start"
  /\ Len(assets) # 0
  /\ pages' = << >>
  /\ currentPage' = EmptyPage(1, options)
  /\ currentPageY' = 0
  /\ i' = 0
  /\ pc' = "loop"
  /\ UNCHANGED <<assets, options, strip, prePages, result, gridVars, otherVars>>

\* one iteration of the for loop over the assets
PlacePhoto ==
  /\ pc = "loop"
  /\ i < Len(assets)
  /\ \E box \in getPosition(strip, options) :
       LET asset       == assets[i + 1]
           photoBottom == box.top + box.height
           newPage     == StartsNewPage(Len(currentPage.photos), photoBottom,
                                        currentPageY, options)
           pagesN      == IF newPage THEN Append(pages, currentPage) ELSE pages
           pageN       == IF newPage THEN EmptyPage(NextPageNumber(pagesN), options)
                          ELSE currentPage
           pageYN      == IF newPage THEN box.top ELSE currentPageY
       IN  /\ strip' = Append(strip, box)
           /\ pages' = pagesN
           /\ currentPageY' = pageYN
           /\ currentPage' =
                [pageN EXCEPT !.photos = Append(@, PhotoBox(asset, box, pageYN, options))]
  /\ i' = i + 1
  /\ UNCHANGED <<assets, options, prePages, result, pc, gridVars, otherVars>>

\* fault variant of WithLastPage: the last page is never pushed
WithLastPage_Dropped(ps, page) == ps

\* if (currentPage.photos.length > 0) pages.push(currentPage)
WithLastPage(ps, page) ==
  IF Len(page.photos) > 0 THEN Append(ps, page) ELSE ps

\* the loop has ended: add the last page
AddLastPage ==
  /\ pc = "loop"
  /\ i >= Len(assets)
  /\ pages' = WithLastPage(pages, currentPage)
  /\ prePages' = WithLastPage(pages, currentPage)
  /\ pc' = "align"
  /\ UNCHANGED <<assets, options, strip, currentPage, currentPageY, i, result, gridVars, otherVars>>

\* --------------------------------------------------------- alignment pass
\* fault variant of AlignmentOf: a missing entry means 'center'
AlignmentOf_DefaultCenter(pa, pageNumber) ==
  IF pageNumber \in DOMAIN pa.map THEN pa.map[pageNumber] ELSE "center"

\* fault variant of AlignmentOf: the map is looked up by spread number
AlignmentOf_BySpread(pa, pageNumber) ==
  IF (pageNumber + 1) \div 2 \in DOMAIN pa.map THEN pa.map[(pageNumber + 1) \div 2]
                                               ELSE "left"

\* pageAlignments.get(page.pageNumber) || "left"
AlignmentOf(pa, pageNumber) ==
  IF pageNumber \in DOMAIN pa.map THEN pa.map[pageNumber] ELSE "left"

MinLeftEdge(photos) ==
  CHOOSE m \in { photos[k].x : k \in 1 .. Len(photos) } :
    \A k \in 1 .. Len(photos) : m <= photos[k].x

MaxRightEdge(photos) ==
  CHOOSE m \in { photos[k].x + photos[k].width : k \in 1 .. Len(photos) } :
    \A k \in 1 .. Len(photos) : m >= photos[k].x + photos[k].width

\* fault variant of RightShift: the right edge leaves out the margin
RightShift_NoMargin(photos, o) ==
  LET rightEdge == contentWidth(o)
  IN  rightEdge - MaxRightEdge(photos)

RightShift(photos, o) ==
  LET rightEdge == o.margin + contentWidth(o)
  IN  rightEdge - MaxRightEdge(photos)

\* fault variant of CenterShift: the available space is not halved
CenterShift_NoHalf(photos, o) ==
  LET usedWidth      == MaxRightEdge(photos) - MinLeftEdge(photos)
      availableSpace == contentWidth(o) - usedWidth
      targetLeftEdge == o.margin + availableSpace
  IN  targetLeftEdge - MinLeftEdge(photos)

CenterShift(photos, o) ==
  LET usedWidth      == MaxRightEdge(photos) - MinLeftEdge(photos)
      availableSpace == contentWidth(o) - usedWidth
      targetLeftEdge == o.margin + Half(availableSpace)
  IN  targetLeftEdge - MinLeftEdge(photos)

Shift(alignment, photos, o) ==
  IF alignment = "right" THEN RightShift(photos, o)
  ELSE IF alignment = "center" THEN CenterShift(photos, o)
  ELSE 0

\* fault variant of AlignPage: only the first box is moved
AlignPage_FirstOnly(page, o) ==
  LET alignment == AlignmentOf(o.pageAlignments, page.pageNumber)
  IN  IF Len(page.photos) > 0 /\ alignment # "left"
      THEN [page EXCEPT !.photos[1].x = @ + Shift(alignment, page.photos, o)]
      ELSE page

AlignPage(page, o) ==
  LET alignment == AlignmentOf(o.pageAlignments, page.pageNumber)
  IN  IF Len(page.photos) > 0 /\ alignment # "left"
      THEN [page EXCEPT !.photos =
              [k \in 1 .. Len(page.photos) |->
                 [page.photos[k] EXCEPT !.x = @ + Shift(alignment, page.photos, o)]]]
      ELSE page

ApplyPageAlignments ==
  /\ pc = "align"
  /\ pages' = IF options.pageAlignments.defined
              THEN [k \in 1 .. Len(pages) |-> AlignPage(pages[k], options)]
              ELSE pages
  /\ pc' = "combine"
  /\ UNCHANGED <<assets, options, strip, currentPage, currentPageY, i, prePages, result, gridVars, otherVars>>

\* -------------------------------------------------------- spread combiner
\* fault variant of ShiftedRight: the right page is not shifted
ShiftedRight_NoShift(photos, o) == photos

ShiftedRight(photos, o) ==
  [k \in 1 .. Len(photos) |-> [photos[k] EXCEPT !.x = @ + PageDimensions(o).width]]

\* i is the 0-based index of the left page, as in the code
CombinedPage(idx, leftPage, rightPage, o) ==
  [pageNumber |-> (idx \div 2) + 1,
   photos     |-> leftPage.photos \o ShiftedRight(rightPage.photos, o),
   width      |-> PageDimensions(o).width * 2,
   height     |-> PageDimensions(o).height]

\* fault variant of LoneSpread: the lone page keeps the single width
LoneSpread_SingleWidth(idx, leftPage, o) ==
  [leftPage EXCEPT !.pageNumber = (idx \div 2) + 1]

LoneSpread(idx, leftPage, o) ==
  [leftPage EXCEPT !.pageNumber = (idx \div 2) + 1,
                   !.width = PageDimensions(o).width * 2]

RECURSIVE CombineFrom(_, _, _, _)
CombineFrom(ps, idx, combinedPages, o) ==
  IF idx >= Len(ps) THEN combinedPages
  ELSE IF idx + 2 <= Len(ps)
       THEN CombineFrom(ps, idx + 2,
                        Append(combinedPages, CombinedPage(idx, ps[idx + 1], ps[idx + 2], o)), o)
       ELSE CombineFrom(ps, idx + 2,
                        Append(combinedPages, LoneSpread(idx, ps[idx + 1], o)), o)

CombinePages(ps, o) == CombineFrom(ps, 0, << >>, o)

ReturnCombined ==
  /\ pc = "combine"
  /\ options.combinePages
  /\ result' = CombinePages(pages, options)
  /\ pc' = "done"
  /\ UNCHANGED <<assets, options, strip, pages, currentPage, currentPageY, i, prePages, gridVars, otherVars>>

ReturnPages ==
  /\ pc = "combine"
  /\ ~options.combinePages
  /\ result' = pages
  /\ pc' = "done"
  /\ UNCHANGED <<assets, options, strip, pages, currentPage, currentPageY, i, prePages, gridVars, otherVars>>

\* ======================================================================
\* PhotoGrid (src/src/components/PhotoGrid.tsx)
\* ======================================================================
\* ------------------------------------------------------ PhotoGrid: data
\* the album shows up to MaxGridAssets assets
MaxGridAssets == 2

AssetIds == 1 .. MaxGridAssets

AlbumIds == {"A", "B"}

\* a ratio is the fraction num / den; the code holds it as one number
Ratio(n, d) == [num |-> n, den |-> d]

RatioEq(a, b) == a.num * b.den = b.num * a.den

Double(r) == Ratio(2 * r.num, r.den)

\* an exif dimension: a number, or missing (undefined; so is every field of
\* an asset without exifInfo)
Missing == [known |-> FALSE, value |-> 0]

Known(v) == [known |-> TRUE, value |-> v]

\* an asset as the Immich API returns it; orientation "" and description ""
\* stand for a missing field
Assets ==
  [ id : AssetIds,
    exifImageWidth : {Missing, Known(0), Known(3)},
    exifImageHeight : {Missing, Known(0), Known(2)},
    orientation : {"", "1", "6"},
    description : {"", "caption"} ]

NoAsset ==
  [id |-> 0, exifImageWidth |-> Missing, exifImageHeight |-> Missing,
   orientation |-> "", description |-> ""]

\* the overrides an aspect-ratio drag or a stored record can hold
OverrideRatios == {Ratio(2, 1), Ratio(1, 2)}

\* the positions descriptionPositions holds ('bottom' is the absence of an entry)
StoredPositions == {"top", "left", "right"}

\* the maps with at most one entry
AtMostOne(S, V) == { << >> } \cup { (k :> v) : k \in S, v \in V }

DEFAULT_GLOBAL_CONFIG ==
  [pageSize |-> "CUSTOM", orientation |-> "portrait",
   pageWidth |-> Px(2515), pageHeight |-> Px(3260), margin |-> Px(118),
   combinePages |-> TRUE, rowHeight |-> Px(994), spacing |-> Px(20),
   filterVideos |-> TRUE, showDates |-> TRUE, showDescriptions |-> TRUE]

\* customOrdering: string[] | null
NullOrdering == [isNull |-> TRUE, ids |-> << >>]

NoDrag ==
  [active |-> FALSE, assetId |-> 0, edge |-> "right", startX |-> 0,
   originalAspectRatio |-> Ratio(1, 1), originalX |-> 0, originalWidth |-> 0]

\* an item of localStorage: absent, a string JSON.parse rejects, or the JSON
\* text of an object
Absent == [kind |-> "absent", value |-> << >>]

Garbage == [kind |-> "garbage", value |-> << >>]

Json(v) == [kind |-> "json", value |-> v]

\* keys immich-book-global-config and immich-book-config-<albumId>
EmptyStorage == [global |-> Absent, albums |-> [a \in AlbumIds |-> Absent]]

NotRendered == [containerWidth |-> 0, imageWidth |-> 0, captionWidth |-> 0]

\* reorderDragState: { draggedAssetId, draggedIndex } | null
NoReorderDrag == [active |-> FALSE, draggedAssetId |-> 0, draggedIndex |-> 0]

\* dropTargetIndex: number | null
NoIndex == -1

\* selectedAlbum: AlbumResponseDto | null, and an item of localStorage that
\* is not set; albums are numbered from 1
NoAlbum == 0

\* dragState of the row heights: { pageNumber, rowIndex, startY,
\* originalHeight } | null
NoRowDrag ==
  [active |-> FALSE, pageNumber |-> 0, rowIndex |-> 0, startY |-> 0, originalHeight |-> 0]

\* no photo is dragged, nobody is connected, no row has a manual height
OtherIdle ==
  /\ reorderDragState = NoReorderDrag
  /\ dropTargetIndex = NoIndex
  /\ dragSession = "none"
  /\ immichConfig = FALSE
  /\ selectedAlbum = NoAlbum
  /\ isLoadingAlbum = FALSE
  /\ pendingLoads = {}
  /\ appStorage = [config |-> FALSE, lastAlbumId |-> NoAlbum]
  /\ rowPages = << >>
  /\ adjustedPages = << >>
  /\ dragState = NoRowDrag

\* the component is not mounted
GridIdle ==
  /\ gridAsset = NoAsset
  /\ settings = DEFAULT_GLOBAL_CONFIG
  /\ customAspectRatios = << >>
  /\ customOrdering = NullOrdering
  /\ descriptionPositions = << >>
  /\ adjustedAspectRatios = << >>
  /\ aspectRatio = Ratio(0, 0)
  /\ photoBox = [width |-> 0]
  /\ rendered = [pdf |-> NotRendered, preview |-> NotRendered]
  /\ aspectDragState = NoDrag
  /\ localStorage = EmptyStorage
  /\ initialConfig = << >>
  /\ album = ""
  /\ phase = "idle"

\* calculatePageLayout is not running
LayoutIdle ==
  /\ assets = << >>
  /\ options = CHOOSE o \in LayoutOptions : TRUE
  /\ strip = << >>
  /\ pages = << >>
  /\ currentPage = NoPage
  /\ currentPageY = 0
  /\ i = 0
  /\ prePages = << >>
  /\ result = << >>
  /\ pc = "idle"

Init == LayoutInit /\ GridIdle /\ OtherIdle

Next ==
  \/ ReturnEmpty
  \/ BeginLayout
  \/ PlacePhoto
  \/ AddLastPage
  \/ ApplyPageAlignments
  \/ ReturnCombined
  \/ ReturnPages

Spec == Init /\ [][Next]_vars

\* ---------------------------------------------- layouts of every page size
\* the asset list holds up to MaxDimAssets assets
MaxDimAssets == 2

\* options with every page size and orientation, custom dimensions given or not
DimensionOptions ==
  [pageSize       : {"A4", "LETTER", "A3", "CUSTOM"},
   orientation    : {"portrait", "landscape"},
   margin         : { Px(MaxMargin) },
   rowHeight      : { Px(MaxRowHeight) },
   spacing        : { 0 },
   customWidth    : { 0, Px(CustomWidthPx) },
   customHeight   : { 0, Px(CustomHeightPx) },
   combinePages   : BOOLEAN,
   pageAlignments : {NoPageAlignments}]

DimInit ==
  /\ assets \in { [k \in 1 .. n |-> k] : n \in 0 .. MaxDimAssets }
  /\ options \in DimensionOptions
  /\ strip = << >>
  /\ pages = << >>
  /\ currentPage = NoPage
  /\ currentPageY = 0
  /\ i = 0
  /\ prePages = << >>
  /\ result = << >>
  /\ pc = "start"
  /\ GridIdle
  /\ OtherIdle

DimSpec == DimInit /\ [][Next]_vars

\* ------------------------------------- PhotoGrid: ratios and caption space
OrOne_NoFallback(d) == d.value

\* a || 1
OrOne(d) == IF d.known /\ d.value # 0 THEN d.value ELSE 1

\* pageLayout.ts, assets.map((asset) => ...): the ratio handed to the packer
AspectRatioOf(a, custom) ==
  IF a.id \in DOMAIN custom /\ custom[a.id].num # 0
    THEN custom[a.id]
    ELSE LET width == OrOne(a.exifImageWidth)
             height == OrOne(a.exifImageHeight)
         IN  IF a.orientation = "6" THEN Ratio(height, width)
                                    ELSE Ratio(width, height)

\* pages (useMemo): the condition under which the ratio is doubled
NeedsDoubling(a) ==
  LET hasDescription == settings.showDescriptions /\ a.description # ""
  IN  /\ hasDescription
      /\ a.id \in DOMAIN descriptionPositions
      /\ descriptionPositions[a.id] \in {"left", "right"}

\* pages (useMemo): adjustedAspectRatios after the forEach
AdjustedAspectRatios(a) ==
  IF NeedsDoubling(a)
    THEN IF a.id \in DOMAIN customAspectRatios /\ customAspectRatios[a.id].num # 0
           THEN (a.id :> Double(customAspectRatios[a.id])) @@ customAspectRatios
           ELSE LET width == OrOne(a.exifImageWidth)
                    height == OrOne(a.exifImageHeight)
                    naturalRatio == IF a.orientation = "6" THEN Ratio(height, width)
                                                           ELSE Ratio(width, height)
                IN  (a.id :> Double(naturalRatio)) @@ customAspectRatios
    ELSE customAspectRatios

\* descriptionPositions.get(id) || "bottom"
descPositionOf(a) ==
  IF a.id \in DOMAIN descriptionPositions THEN descriptionPositions[a.id] ELSE "bottom"

\* isLeftRight of the PDF renderer
isLeftRightPdf(a) ==
  LET hasDescription == settings.showDescriptions /\ a.description # ""
  IN  hasDescription /\ descPositionOf(a) \in {"left", "right"}

isLeftRightPreview_CaptionOnly(a) ==
  a.description # "" /\ descPositionOf(a) \in {"left", "right"}

\* isLeftRight of the preview renderer
isLeftRightPreview(a) ==
  LET hasDescription == settings.showDescriptions /\ a.description # ""
  IN  hasDescription /\ descPositionOf(a) \in {"left", "right"}

\* pixels * (72 / 300)
toPoints(pixels) == (pixels * 72) \div 300

\* the widths of the container, of the image and of the caption beside it
RenderedBox(isLeftRight) ==
  LET containerWidth == toPoints(photoBox.width)
      imageWidth == IF isLeftRight THEN Half(toPoints(photoBox.width))
                                   ELSE toPoints(photoBox.width)
  IN  [containerWidth |-> containerWidth, imageWidth |-> imageWidth,
       captionWidth |-> IF isLeftRight THEN imageWidth ELSE 0]

\* the widths the packer may give the box of the asset
PackedWidths == {Px(25), Px(50)}

RatioInit ==
  /\ LayoutIdle
  /\ OtherIdle
  /\ gridAsset \in Assets
  /\ settings \in { [DEFAULT_GLOBAL_CONFIG EXCEPT !.showDescriptions = b] : b \in BOOLEAN }
  /\ customAspectRatios \in AtMostOne(AssetIds, OverrideRatios)
  /\ customOrdering = NullOrdering
  /\ descriptionPositions \in AtMostOne(AssetIds, StoredPositions)
  /\ adjustedAspectRatios = << >>
  /\ aspectRatio = Ratio(0, 0)
  /\ photoBox = [width |-> 0]
  /\ rendered = [pdf |-> NotRendered, preview |-> NotRendered]
  /\ aspectDragState = NoDrag
  /\ localStorage = EmptyStorage
  /\ initialConfig = << >>
  /\ album = ""
  /\ phase = "memo"

\* pages = useMemo(...): adjust the ratios, resolve the ratio of the asset,
\* let the packer place it
LayoutMemo ==
  /\ phase = "memo"
  /\ adjustedAspectRatios' = AdjustedAspectRatios(gridAsset)
  /\ aspectRatio' = AspectRatioOf(gridAsset, adjustedAspectRatios')
  /\ \E w \in PackedWidths : photoBox' = [width |-> w]
  /\ phase' = "laid"
  /\ UNCHANGED <<layoutVars, otherVars, gridAsset, settings, customAspectRatios, customOrdering,
                 descriptionPositions, rendered, aspectDragState, localStorage,
                 initialConfig, album>>

\* the photo in the PDF document
RenderPdf ==
  /\ phase = "laid"
  /\ rendered.pdf = NotRendered
  /\ rendered' = [rendered EXCEPT !.pdf = RenderedBox(isLeftRightPdf(gridAsset))]
  /\ UNCHANGED <<layoutVars, otherVars, gridAsset, settings, customAspectRatios, customOrdering,
                 descriptionPositions, adjustedAspectRatios, aspectRatio, photoBox,
                 aspectDragState, localStorage, initialConfig, album, phase>>

\* the photo in the preview
RenderPreview ==
  /\ phase = "laid"
  /\ rendered.preview = NotRendered
  /\ rendered' = [rendered EXCEPT !.preview = RenderedBox(isLeftRightPreview(gridAsset))]
  /\ UNCHANGED <<layoutVars, otherVars, gridAsset, settings, customAspectRatios, customOrdering,
                 descriptionPositions, adjustedAspectRatios, aspectRatio, photoBox,
                 aspectDragState, localStorage, initialConfig, album, phase>>

RatioNext ==
  \/ LayoutMemo
  \/ RenderPdf
  \/ RenderPreview

RatioSpec == RatioInit /\ [][RatioNext]_vars

\* ------------------------------------------------ PhotoGrid: persistence
\* a stored record holds up to MaxStoredKeys keys, or all of them
MaxStoredKeys == 1

GlobalKeys ==
  {"pageSize", "orientation", "pageWidth", "pageHeight", "margin", "combinePages",
   "rowHeight", "spacing", "filterVideos", "showDates", "showDescriptions"}

CustomizationKeys == {"customAspectRatios", "customOrdering", "descriptionPositions"}

KnownKeys == GlobalKeys \cup CustomizationKeys

Spread_FirstWins(a, b) ==
  [k \in (DOMAIN a) \cup (DOMAIN b) |-> IF k \in DOMAIN a THEN a[k] ELSE b[k]]

\* { ...a, ...b }
Spread(a, b) ==
  [k \in (DOMAIN a) \cup (DOMAIN b) |-> IF k \in DOMAIN b THEN b[k] ELSE a[k]]

Restrict(r, K) == [k \in K |-> r[k]]

\* customAspectRatios: {}, customOrdering: null, descriptionPositions: {}
NoCustomizations ==
  [customAspectRatios |-> << >>, customOrdering |-> NullOrdering,
   descriptionPositions |-> << >>]

loadGlobalConfig(ls) ==
  IF ls.global.kind = "json"
    THEN Spread(DEFAULT_GLOBAL_CONFIG, ls.global.value)
    ELSE DEFAULT_GLOBAL_CONFIG

\* the global record spread over the album's record
loadAlbumConfig_GlobalLast(ls, albumId) ==
  LET globalConfig == loadGlobalConfig(ls)
  IN  IF ls.albums[albumId].kind = "json"
        THEN Spread(Spread(NoCustomizations, ls.albums[albumId].value), globalConfig)
        ELSE Spread(globalConfig, NoCustomizations)

loadAlbumConfig(ls, albumId) ==
  LET globalConfig == loadGlobalConfig(ls)
  IN  IF ls.albums[albumId].kind = "json"
        THEN Spread(Spread(globalConfig, NoCustomizations), ls.albums[albumId].value)
        ELSE Spread(globalConfig, NoCustomizations)

\* both setItem calls; the storage is taken to accept them
saveAlbumConfig(ls, albumId, config) ==
  [ls EXCEPT !.albums[albumId] = Json(config),
             !.global = Json(Restrict(config, GlobalKeys))]

\* ------------------------------------------------- PhotoGrid: validation
Max(a, b) == IF a >= b THEN a ELSE b

Min(a, b) == IF a <= b THEN a ELSE b

isPageWidthValid(s) == s.pageWidth >= Px(1000) /\ s.pageWidth <= Px(10000)

isPageHeightValid(s) == s.pageHeight >= Px(1000) /\ s.pageHeight <= Px(10000)

\* margin <= pageWidth / 2
isMarginValid(s) == s.margin >= 0 /\ 2 * s.margin <= s.pageWidth

isRowHeightValid(s) == s.rowHeight >= Px(300) /\ s.rowHeight <= s.pageHeight

isSpacingValid(s) == s.spacing >= 0 /\ s.spacing <= Px(100)

validPageWidth(s) ==
  IF isPageWidthValid(s) THEN s.pageWidth ELSE Max(Px(1000), Min(Px(10000), s.pageWidth))

validPageHeight(s) ==
  IF isPageHeightValid(s) THEN s.pageHeight ELSE Max(Px(1000), Min(Px(10000), s.pageHeight))

validMargin(s) ==
  IF isMarginValid(s) THEN s.margin ELSE Max(0, Min(Half(validPageWidth(s)), s.margin))

validRowHeight(s) ==
  IF isRowHeightValid(s) THEN s.rowHeight ELSE Max(Px(300), Min(validPageHeight(s), s.rowHeight))

validSpacing(s) ==
  IF isSpacingValid(s) THEN s.spacing ELSE Max(0, Min(Px(100), s.spacing))

\* the options the layout memo passes to calculatePageLayout
LayoutOptionsOf(s) ==
  [pageSize |-> "CUSTOM", orientation |-> "portrait", margin |-> validMargin(s),
   rowHeight |-> validRowHeight(s), spacing |-> validSpacing(s),
   customWidth |-> validPageWidth(s), customHeight |-> validPageHeight(s),
   combinePages |-> s.combinePages, pageAlignments |-> NoPageAlignments]

\* the save effect, run after a render in which one of its dependencies changed
SaveEffect(ls, albumId, s, ratios, ordering, positions) ==
  IF \/ ~isPageWidthValid(s) \/ ~isPageHeightValid(s) \/ ~isMarginValid(s)
     \/ ~isRowHeightValid(s) \/ ~isSpacingValid(s)
    THEN ls
    ELSE saveAlbumConfig(ls, albumId,
           Spread(s, [customAspectRatios |-> ratios, customOrdering |-> ordering,
                      descriptionPositions |-> positions]))

\* --------------------------------------------------- PhotoGrid: mounting
\* everything but localStorage before an album is opened
Unmounted ==
  /\ gridAsset = NoAsset
  /\ settings = DEFAULT_GLOBAL_CONFIG
  /\ customAspectRatios = << >>
  /\ customOrdering = NullOrdering
  /\ descriptionPositions = << >>
  /\ adjustedAspectRatios = << >>
  /\ aspectRatio = Ratio(0, 0)
  /\ photoBox = [width |-> 0]
  /\ rendered = [pdf |-> NotRendered, preview |-> NotRendered]
  /\ aspectDragState = NoDrag
  /\ initialConfig = << >>
  /\ album = ""
  /\ phase = "unmounted"

\* the effect on [pageSize, orientation]
WithPresetDimensions(s) ==
  IF s.pageSize # "CUSTOM"
    THEN [s EXCEPT !.pageWidth = PAGE_SIZES[s.pageSize][s.orientation].width,
                   !.pageHeight = PAGE_SIZES[s.pageSize][s.orientation].height]
    ELSE s

\* the first render of PhotoGrid for an album and the effects that follow it:
\* the state is initialised from loadAlbumConfig, the preset dimensions are
\* applied, and the save effect runs for each of the two renders
Mount(a) ==
  /\ phase = "unmounted"
  /\ LET config   == loadAlbumConfig(localStorage, a)
         loaded   == Restrict(config, GlobalKeys)
         adjusted == WithPresetDimensions(loaded)
         first    == SaveEffect(localStorage, a, loaded, config.customAspectRatios,
                                config.customOrdering, config.descriptionPositions)
     IN  /\ initialConfig' = config
         /\ settings' = adjusted
         /\ customAspectRatios' = config.customAspectRatios
         /\ customOrdering' = config.customOrdering
         /\ descriptionPositions' = config.descriptionPositions
         /\ localStorage' = SaveEffect(first, a, adjusted, config.customAspectRatios,
                                       config.customOrdering, config.descriptionPositions)
  /\ album' = a
  /\ phase' = "mounted"
  /\ UNCHANGED <<layoutVars, otherVars, gridAsset, adjustedAspectRatios, aspectRatio, photoBox,
                 rendered, aspectDragState>>

\* --------------------------------------------- PhotoGrid: loading a config
\* values a stored record may hold, all different from the defaults or from
\* each other where the type allows it
StoredVariants ==
  { [pageSize |-> "A4", orientation |-> "landscape", pageWidth |-> Px(2000),
     pageHeight |-> Px(3000), margin |-> Px(100), combinePages |-> FALSE,
     rowHeight |-> Px(500), spacing |-> Px(10), filterVideos |-> FALSE,
     showDates |-> FALSE, showDescriptions |-> FALSE,
     customAspectRatios |-> (1 :> Ratio(2, 1)),
     customOrdering |-> [isNull |-> FALSE, ids |-> <<2, 1>>],
     descriptionPositions |-> (1 :> "left")],
    [pageSize |-> "CUSTOM", orientation |-> "portrait", pageWidth |-> Px(4000),
     pageHeight |-> Px(5000), margin |-> Px(200), combinePages |-> TRUE,
     rowHeight |-> Px(600), spacing |-> Px(30), filterVideos |-> TRUE,
     showDates |-> TRUE, showDescriptions |-> TRUE,
     customAspectRatios |-> (2 :> Ratio(1, 2)),
     customOrdering |-> NullOrdering,
     descriptionPositions |-> (2 :> "top")] }

StoredKeySets(keys) ==
  { K \in SUBSET keys : Cardinality(K) <= MaxStoredKeys } \cup {keys}

StoredItems(keys) ==
  {Absent, Garbage} \cup
    { Json(Restrict(v, K)) : v \in StoredVariants, K \in StoredKeySets(keys) }

LoadInit ==
  /\ LayoutIdle
  /\ OtherIdle
  /\ Unmounted
  /\ localStorage \in
       { [global |-> g, albums |-> [a \in AlbumIds |-> IF a = "A" THEN x ELSE Absent]] :
           g \in StoredItems(GlobalKeys), x \in StoredItems(KnownKeys) }

LoadNext == \E a \in AlbumIds : Mount(a)

LoadSpec == LoadInit /\ [][LoadNext]_vars

\* ------------------------------------------ PhotoGrid: the number inputs
\* the numbers the user types (onChange ignores what is not a number)
EnteredPageWidths == {Px(500), Px(2515), Px(3000), Px(20000)}

EnteredPageHeights == {Px(1000), Px(3260)}

EnteredMargins == {0 - Px(10), Px(118), Px(600), Px(1500), Px(8000)}

EnteredRowHeights == {Px(100), Px(994), Px(5000)}

EnteredSpacings == {Px(20), Px(200)}

\* the storage after the render that follows a change of the settings to s
Saved(s) ==
  SaveEffect(localStorage, album, s, customAspectRatios, customOrdering,
             descriptionPositions)

SetPageWidth(value) ==
  /\ phase = "mounted"
  /\ value # settings.pageWidth
  /\ settings' = [settings EXCEPT !.pageWidth = value]
  /\ localStorage' = Saved(settings')
  /\ UNCHANGED <<layoutVars, otherVars, gridAsset, customAspectRatios, customOrdering,
                 descriptionPositions, adjustedAspectRatios, aspectRatio, photoBox,
                 rendered, aspectDragState, initialConfig, album, phase>>

SetPageHeight(value) ==
  /\ phase = "mounted"
  /\ value # settings.pageHeight
  /\ settings' = [settings EXCEPT !.pageHeight = value]
  /\ localStorage' = Saved(settings')
  /\ UNCHANGED <<layoutVars, otherVars, gridAsset, customAspectRatios, customOrdering,
                 descriptionPositions, adjustedAspectRatios, aspectRatio, photoBox,
                 rendered, aspectDragState, initialConfig, album, phase>>

SetMargin(value) ==
  /\ phase = "mounted"
  /\ value # settings.margin
  /\ settings' = [settings EXCEPT !.margin = value]
  /\ localStorage' = Saved(settings')
  /\ UNCHANGED <<layoutVars, otherVars, gridAsset, customAspectRatios, customOrdering,
                 descriptionPositions, adjustedAspectRatios, aspectRatio, photoBox,
                 rendered, aspectDragState, initialConfig, album, phase>>

SetRowHeight(value) ==
  /\ phase = "mounted"
  /\ value # settings.rowHeight
  /\ settings' = [settings EXCEPT !.rowHeight = value]
  /\ localStorage' = Saved(settings')
  /\ UNCHANGED <<layoutVars, otherVars, gridAsset, customAspectRatios, customOrdering,
                 descriptionPositions, adjustedAspectRatios, aspectRatio, photoBox,
                 rendered, aspectDragState, initialConfig, album, phase>>

SetSpacing(value) ==
  /\ phase = "mounted"
  /\ value # settings.spacing
  /\ settings' = [settings EXCEPT !.spacing = value]
  /\ localStorage' = Saved(settings')
  /\ UNCHANGED <<layoutVars, otherVars, gridAsset, customAspectRatios, customOrdering,
                 descriptionPositions, adjustedAspectRatios, aspectRatio, photoBox,
                 rendered, aspectDragState, initialConfig, album, phase>>

SetCombinePages(checked) ==
  /\ phase = "mounted"
  /\ checked # settings.combinePages
  /\ settings' = [settings EXCEPT !.combinePages = checked]
  /\ localStorage' = Saved(settings')
  /\ UNCHANGED <<layoutVars, otherVars, gridAsset, customAspectRatios, customOrdering,
                 descriptionPositions, adjustedAspectRatios, aspectRatio, photoBox,
                 rendered, aspectDragState, initialConfig, album, phase>>

SettingsInit ==
  /\ LayoutIdle
  /\ OtherIdle
  /\ Unmounted
  /\ localStorage = EmptyStorage

SettingsNext ==
  \/ \E a \in AlbumIds : Mount(a)
  \/ \E value \in EnteredPageWidths : SetPageWidth(value)
  \/ \E value \in EnteredPageHeights : SetPageHeight(value)
  \/ \E value \in EnteredMargins : SetMargin(value)
  \/ \E value \in EnteredRowHeights : SetRowHeight(value)
  \/ \E value \in EnteredSpacings : SetSpacing(value)
  \/ \E checked \in BOOLEAN : SetCombinePages(checked)

SettingsSpec == SettingsInit /\ [][SettingsNext]_vars

\* ------------------------------------------- PhotoGrid: customizations
\* a drag starts only from a ratio whose terms are at most MaxRatioTerm
MaxRatioTerm == 3

RECURSIVE GCD(_, _)
GCD(a, b) == IF b = 0 THEN a ELSE GCD(b, a % b)

\* the number a quotient of whole numbers denotes
Normalize(r) ==
  LET g == GCD(r.num, r.den) IN Ratio(r.num \div g, r.den \div g)

\* the assets of the album; every one has a caption
AlbumAsset(id) ==
  [id |-> id, exifImageWidth |-> Known(3), exifImageHeight |-> Known(2),
   orientation |-> IF id = 1 THEN "6" ELSE "1", description |-> "caption"]

\* aspectRatio of the preview render: customAspectRatios.get(id) || natural
currentAspectRatio(a) ==
  LET naturalWidth == OrOne(a.exifImageWidth)
      naturalHeight == OrOne(a.exifImageHeight)
      natural == IF a.orientation = "6" THEN Ratio(naturalHeight, naturalWidth)
                                        ELSE Ratio(naturalWidth, naturalHeight)
  IN  IF a.id \in DOMAIN customAspectRatios /\ customAspectRatios[a.id].num # 0
        THEN customAspectRatios[a.id]
        ELSE natural

\* the boxes whose handles are grabbed, where the pointer grabs them and where
\* it moves to (screen pixels)
DragBoxes == { [x |-> Px(118), width |-> Px(1000)] }

GrabXs == {100}

PointerXs == {88, 100, 112}

Without(m, id) == [k \in (DOMAIN m) \ {id} |-> m[k]]

With(m, id, v) == (id :> v) @@ m

\* the storage after the render that follows a change of the customizations
SavedWith(ratios, positions) ==
  SaveEffect(localStorage, album, settings, ratios, customOrdering, positions)

handleAspectDragStart(assetId, edge, box, clientX) ==
  /\ phase = "mounted"
  /\ ~aspectDragState.active
  /\ LET aspectRatio0 == currentAspectRatio(AlbumAsset(assetId))
     IN  /\ aspectRatio0.num <= MaxRatioTerm /\ aspectRatio0.den <= MaxRatioTerm
         /\ aspectDragState' =
              [active |-> TRUE, assetId |-> assetId, edge |-> edge, startX |-> clientX,
               originalAspectRatio |-> aspectRatio0, originalX |-> box.x,
               originalWidth |-> box.width]
  /\ UNCHANGED <<layoutVars, otherVars, gridAsset, settings, customAspectRatios, customOrdering,
                 descriptionPositions, adjustedAspectRatios, aspectRatio, photoBox,
                 rendered, localStorage, initialConfig, album, phase>>

\* the snap measured from the first page of a spread only
DraggedRatio_FirstPage(d, s, clientX) ==
  LET deltaX == clientX - d.startX
      deltaPixels == (Px(deltaX) * 300) \div 72
      widthDelta == IF d.edge = "right" THEN deltaPixels ELSE 0 - deltaPixels
      dragged == Max(Px(50), d.originalWidth + widthDelta)
      contentWidthPx == validPageWidth(s) - validMargin(s) * 2
      rightEdge == d.originalX - validMargin(s) + dragged
      distance == IF rightEdge >= contentWidthPx THEN rightEdge - contentWidthPx
                                                 ELSE contentWidthPx - rightEdge
      newWidth == IF distance <= Px(50)
                    THEN validMargin(s) + contentWidthPx - d.originalX
                    ELSE dragged
  IN  Normalize(Ratio(newWidth * d.originalAspectRatio.num,
                      d.originalWidth * d.originalAspectRatio.den))

\* the override handleMouseMove computes for the pointer at clientX
DraggedRatio(d, s, clientX) ==
  LET deltaX == clientX - d.startX
      deltaPixels == (Px(deltaX) * 300) \div 72
      widthDelta == IF d.edge = "right" THEN deltaPixels ELSE 0 - deltaPixels
      dragged == Max(Px(50), d.originalWidth + widthDelta)
      snapThreshold == Px(50)
      contentWidthPx == validPageWidth(s) - validMargin(s) * 2
      singlePageWidth == contentWidthPx + validMargin(s)
      pageIndex == d.originalX \div (singlePageWidth + validMargin(s))
      pageStartX == pageIndex * (singlePageWidth + validMargin(s)) + validMargin(s)
      rightEdge == d.originalX - pageStartX + dragged
      distance == IF rightEdge >= contentWidthPx THEN rightEdge - contentWidthPx
                                                 ELSE contentWidthPx - rightEdge
      newWidth == IF distance <= snapThreshold
                    THEN pageStartX + contentWidthPx - d.originalX
                    ELSE dragged
  IN  Normalize(Ratio(newWidth * d.originalAspectRatio.num,
                      d.originalWidth * d.originalAspectRatio.den))

\* a mousemove on the window while a drag is in progress, and the save effect
\* of the render that follows
handleMouseMove(clientX) ==
  /\ phase = "mounted"
  /\ aspectDragState.active
  /\ customAspectRatios' =
       With(customAspectRatios, aspectDragState.assetId,
            DraggedRatio(aspectDragState, settings, clientX))
  /\ localStorage' = SavedWith(customAspectRatios', descriptionPositions)
  /\ UNCHANGED <<layoutVars, otherVars, gridAsset, settings, customOrdering, descriptionPositions,
                 adjustedAspectRatios, aspectRatio, photoBox, rendered,
                 aspectDragState, initialConfig, album, phase>>

handleMouseUp ==
  /\ phase = "mounted"
  /\ aspectDragState.active
  /\ aspectDragState' = NoDrag
  /\ UNCHANGED <<layoutVars, otherVars, gridAsset, settings, customAspectRatios, customOrdering,
                 descriptionPositions, adjustedAspectRatios, aspectRatio, photoBox,
                 rendered, localStorage, initialConfig, album, phase>>

\* the Reset button of a customized image
handleResetAspectRatio(assetId) ==
  /\ phase = "mounted"
  /\ ~aspectDragState.active
  /\ assetId \in DOMAIN customAspectRatios
  /\ customAspectRatios' = Without(customAspectRatios, assetId)
  /\ localStorage' = SavedWith(customAspectRatios', descriptionPositions)
  /\ UNCHANGED <<layoutVars, otherVars, gridAsset, settings, customOrdering, descriptionPositions,
                 adjustedAspectRatios, aspectRatio, photoBox, rendered,
                 aspectDragState, initialConfig, album, phase>>

handleResetAllCustomizations ==
  /\ phase = "mounted"
  /\ ~aspectDragState.active
  /\ customAspectRatios' = << >>
  /\ localStorage' = SavedWith(customAspectRatios', descriptionPositions)
  /\ UNCHANGED <<layoutVars, otherVars, gridAsset, settings, customOrdering, descriptionPositions,
                 adjustedAspectRatios, aspectRatio, photoBox, rendered,
                 aspectDragState, initialConfig, album, phase>>

handleResetDescriptionPositions ==
  /\ phase = "mounted"
  /\ ~aspectDragState.active
  /\ descriptionPositions' = << >>
  /\ localStorage' = SavedWith(customAspectRatios, descriptionPositions')
  /\ UNCHANGED <<layoutVars, otherVars, gridAsset, settings, customAspectRatios, customOrdering,
                 adjustedAspectRatios, aspectRatio, photoBox, rendered,
                 aspectDragState, initialConfig, album, phase>>

positions == <<"bottom", "top", "left", "right">>

\* positions.indexOf(p), counted from 0
indexOf(p) == (CHOOSE k \in 1 .. Len(positions) : positions[k] = p) - 1

CycledPositions_KeepsBottom(m, assetId) ==
  LET currentPosition == IF assetId \in DOMAIN m THEN m[assetId] ELSE "bottom"
      nextPosition == positions[((indexOf(currentPosition) + 1) % Len(positions)) + 1]
  IN  With(m, assetId, nextPosition)

\* the map handleDescriptionClick sets
CycledPositions(m, assetId) ==
  LET currentPosition == IF assetId \in DOMAIN m THEN m[assetId] ELSE "bottom"
      currentIndex == indexOf(currentPosition)
      nextPosition == positions[((currentIndex + 1) % Len(positions)) + 1]
  IN  IF nextPosition = "bottom" THEN Without(m, assetId)
                                 ELSE With(m, assetId, nextPosition)

handleDescriptionClick(assetId) ==
  /\ phase = "mounted"
  /\ ~aspectDragState.active
  /\ descriptionPositions' = CycledPositions(descriptionPositions, assetId)
  /\ localStorage' = SavedWith(customAspectRatios, descriptionPositions')
  /\ UNCHANGED <<layoutVars, otherVars, gridAsset, settings, customAspectRatios, customOrdering,
                 adjustedAspectRatios, aspectRatio, photoBox, rendered,
                 aspectDragState, initialConfig, album, phase>>

CustomizeInit ==
  /\ LayoutIdle
  /\ OtherIdle
  /\ Unmounted
  /\ localStorage = EmptyStorage

CustomizeNext ==
  \/ \E a \in AlbumIds : Mount(a)
  \/ \E id \in AssetIds, edge \in {"left", "right"}, box \in DragBoxes, x \in GrabXs :
       handleAspectDragStart(id, edge, box, x)
  \/ \E x \in PointerXs : handleMouseMove(x)
  \/ handleMouseUp
  \/ \E id \in AssetIds : handleResetAspectRatio(id)
  \/ handleResetAllCustomizations
  \/ handleResetDescriptionPositions
  \/ \E id \in AssetIds : handleDescriptionClick(id)

CustomizeSpec == CustomizeInit /\ [][CustomizeNext]_vars

\* ------------------------------------------------ PhotoGrid: reordering
\* the album holds MaxReorderAssets assets; the second one is a video
MaxReorderAssets == 3

\* assets, in the order loadAlbumAssets leaves them in
ReorderAssets ==
  [k \in 1 .. MaxReorderAssets |->
     [id |-> k, type |-> IF k = 2 THEN "VIDEO" ELSE "IMAGE"]]

IsImage(a) == a.type = "IMAGE"

RECURSIVE Ids(_)
Ids(as) == IF Len(as) = 0 THEN << >> ELSE <<Head(as).id>> \o Ids(Tail(as))

Elements(seq) == { seq[k] : k \in 1 .. Len(seq) }

\* the ids of defaultFilteredAssets
defaultFilteredAssets(filterVideos) ==
  IF filterVideos THEN Ids(SelectSeq(ReorderAssets, IsImage)) ELSE Ids(ReorderAssets)

\* the ids of filteredAssets: the ids of customOrdering that are in the
\* default list, then the ids of the default list customOrdering lacks
filteredAssets(filterVideos, ordering) ==
  LET default == defaultFilteredAssets(filterVideos)
      InDefault(id) == id \in Elements(default)
      NotOrdered(id) == id \notin Elements(ordering.ids)
      reordered == SelectSeq(ordering.ids, InDefault)
      remaining == SelectSeq(default, NotOrdered)
  IN  IF ordering.isNull THEN default ELSE reordered \o remaining

\* the list the component shows
shownAssets == filteredAssets(settings.filterVideos, customOrdering)

\* newOrder.splice(draggedIndex, 1) without the removal
Spliced_NoRemove(order, draggedIndex, targetIndex) ==
  SubSeq(order, 1, targetIndex) \o <<order[draggedIndex + 1]>>
    \o SubSeq(order, targetIndex + 1, Len(order))

\* [removed] = newOrder.splice(draggedIndex, 1);
\* newOrder.splice(targetIndex, 0, removed); indices count from 0
Spliced(order, draggedIndex, targetIndex) ==
  LET removed == order[draggedIndex + 1]
      rest == SubSeq(order, 1, draggedIndex) \o SubSeq(order, draggedIndex + 2, Len(order))
  IN  SubSeq(rest, 1, targetIndex) \o <<removed>> \o SubSeq(rest, targetIndex + 1, Len(rest))

\* the storage after the render that follows a change of the ordering
SavedOrdering(ordering) ==
  SaveEffect(localStorage, album, settings, customAspectRatios, ordering,
             descriptionPositions)

\* the drag the browser is running: none, one of a photo of the grid or one
\* of something else, before and after its first dragover on a photo, and one
\* of a photo that was dropped and whose dragend is still to come
InternalDrag == {"internal", "internal over"}

ExternalDrag == {"external", "external over"}

\* dragstart on the photo at index of the list shown
handleReorderDragStart(assetId, index) ==
  /\ phase = "mounted"
  /\ dragSession = "none"
  /\ index < Len(shownAssets)
  /\ assetId = shownAssets[index + 1]
  /\ reorderDragState' = [active |-> TRUE, draggedAssetId |-> assetId, draggedIndex |-> index]
  /\ dragSession' = "internal"
  /\ UNCHANGED <<layoutVars, gridVars, dropTargetIndex, appVars, rowVars>>

\* something that is not a photo of the grid (a file, a piece of text) is
\* dragged into the window: no handler runs
ExternalDragEnter ==
  /\ phase = "mounted"
  /\ dragSession = "none"
  /\ dragSession' = "external"
  /\ UNCHANGED <<layoutVars, gridVars, reorderDragState, dropTargetIndex, appVars, rowVars>>

\* ... and leaves it again, or is dropped outside the photos: no handler runs
ExternalDragLeave ==
  /\ dragSession \in ExternalDrag
  /\ dragSession' = "none"
  /\ UNCHANGED <<layoutVars, gridVars, reorderDragState, dropTargetIndex, appVars, rowVars>>

\* dragover on the photo at index, whatever is being dragged
handleReorderDragOver(index) ==
  /\ dragSession \in InternalDrag \cup ExternalDrag
  /\ index < Len(shownAssets)
  /\ dropTargetIndex' = index
  /\ dragSession' = IF dragSession \in InternalDrag THEN "internal over" ELSE "external over"
  /\ UNCHANGED <<layoutVars, gridVars, reorderDragState, appVars, rowVars>>

\* dragend on the dragged photo: after its drop, or when the drag is given up
handleReorderDragEnd ==
  /\ dragSession \in InternalDrag \cup {"dropped"}
  /\ reorderDragState' = NoReorderDrag
  /\ dropTargetIndex' = NoIndex
  /\ dragSession' = "none"
  /\ UNCHANGED <<layoutVars, gridVars, appVars, rowVars>>

\* drop on the photo at targetIndex; the browser delivers it to the element
\* whose dragover was the last one
handleReorderDrop(targetIndex) ==
  /\ dragSession \in {"internal over", "external over"}
  /\ dropTargetIndex = targetIndex
  /\ dragSession' = IF dragSession \in InternalDrag THEN "dropped" ELSE "none"
  /\ IF ~reorderDragState.active
       THEN UNCHANGED <<reorderDragState, dropTargetIndex, customOrdering, localStorage>>
       ELSE IF reorderDragState.draggedIndex = targetIndex
         THEN /\ reorderDragState' = NoReorderDrag
              /\ dropTargetIndex' = NoIndex
              /\ UNCHANGED <<customOrdering, localStorage>>
         ELSE /\ customOrdering' =
                   [isNull |-> FALSE,
                    ids |-> Spliced(shownAssets, reorderDragState.draggedIndex, targetIndex)]
              /\ localStorage' = SavedOrdering(customOrdering')
              /\ reorderDragState' = NoReorderDrag
              /\ dropTargetIndex' = NoIndex
  /\ UNCHANGED <<layoutVars, gridAsset, settings, customAspectRatios,
                 descriptionPositions, adjustedAspectRatios, aspectRatio, photoBox,
                 rendered, aspectDragState, initialConfig, album, phase,
                 appVars, rowVars>>

handleResetOrdering ==
  /\ phase = "mounted"
  /\ dragSession = "none"
  /\ ~customOrdering.isNull
  /\ customOrdering' = NullOrdering
  /\ localStorage' = SavedOrdering(customOrdering')
  /\ UNCHANGED <<layoutVars, otherVars, gridAsset, settings, customAspectRatios,
                 descriptionPositions, adjustedAspectRatios, aspectRatio, photoBox,
                 rendered, aspectDragState, initialConfig, album, phase>>

\* the checkbox "exclude videos"
SetFilterVideos(checked) ==
  /\ phase = "mounted"
  /\ dragSession = "none"
  /\ checked # settings.filterVideos
  /\ settings' = [settings EXCEPT !.filterVideos = checked]
  /\ localStorage' = Saved(settings')
  /\ UNCHANGED <<layoutVars, otherVars, gridAsset, customAspectRatios, customOrdering,
                 descriptionPositions, adjustedAspectRatios, aspectRatio, photoBox,
                 rendered, aspectDragState, initialConfig, album, phase>>

ReorderIndices == 0 .. MaxReorderAssets - 1

ReorderInit ==
  /\ LayoutIdle
  /\ OtherIdle
  /\ Unmounted
  /\ localStorage = EmptyStorage

ReorderNext ==
  \/ Mount("A")
  \/ \E index \in ReorderIndices, id \in 1 .. MaxReorderAssets :
       handleReorderDragStart(id, index)
  \/ ExternalDragEnter
  \/ ExternalDragLeave
  \/ \E index \in ReorderIndices : handleReorderDragOver(index)
  \/ handleReorderDragEnd
  \/ \E index \in ReorderIndices : handleReorderDrop(index)
  \/ handleResetOrdering
  \/ \E checked \in BOOLEAN : SetFilterVideos(checked)

ReorderSpec == ReorderInit /\ [][ReorderNext]_vars

\* --------------------------------------- PhotoGrid: one album after another
\* "Back to albums": App drops selectedAlbum and PhotoGrid is unmounted with
\* all of its state; localStorage stays
Back ==
  /\ phase = "mounted"
  /\ ~aspectDragState.active
  /\ dragSession = "none"
  /\ gridAsset' = NoAsset
  /\ settings' = DEFAULT_GLOBAL_CONFIG
  /\ customAspectRatios' = << >>
  /\ customOrdering' = NullOrdering
  /\ descriptionPositions' = << >>
  /\ adjustedAspectRatios' = << >>
  /\ aspectRatio' = Ratio(0, 0)
  /\ photoBox' = [width |-> 0]
  /\ rendered' = [pdf |-> NotRendered, preview |-> NotRendered]
  /\ aspectDragState' = NoDrag
  /\ initialConfig' = << >>
  /\ album' = ""
  /\ phase' = "unmounted"
  /\ reorderDragState' = NoReorderDrag
  /\ dropTargetIndex' = NoIndex
  /\ UNCHANGED <<layoutVars, localStorage, dragSession, appVars, rowVars>>

PersistInit ==
  /\ LayoutIdle
  /\ OtherIdle
  /\ Unmounted
  /\ localStorage = EmptyStorage

\* the albums are opened in turn; in album A the user changes a setting,
\* types a spacing and moves a caption, in album B the user resizes the first
\* photo and moves the first photo behind the second
PersistNext ==
  \/ \E a \in AlbumIds : Mount(a)
  \/ Back
  \/ album = "A" /\ \E checked \in BOOLEAN : SetCombinePages(checked)
  \/ album = "A" /\ \E value \in EnteredSpacings : SetSpacing(value)
  \/ album = "A" /\ handleDescriptionClick(1)
  \/ album = "B" /\ \E box \in DragBoxes, x \in GrabXs :
                      handleAspectDragStart(1, "right", box, x)
  \/ handleMouseMove(112)
  \/ handleMouseUp
  \/ album = "B" /\ \E id \in 1 .. MaxReorderAssets : handleReorderDragStart(id, 0)
  \/ handleReorderDragOver(1)
  \/ handleReorderDrop(1)
  \/ handleReorderDragEnd

PersistSpec == PersistInit /\ [][PersistNext]_vars

\* ------------------------------------------- PhotoGrid: snapping a resize
\* boxes of the default page (2515 wide, margin 118, content edge at 2397):
\* one far from the content edge, a narrow one, one that ends 27 pixels left
\* of the content edge, and the same on the right half of a spread
SnapBoxes ==
  { [x |-> Px(118), width |-> Px(1000)],
    [x |-> Px(118), width |-> Px(80)],
    [x |-> Px(1200), width |-> Px(1170)],
    [x |-> Px(2515 + 1200), width |-> Px(1170)] }

SnapPointerXs == {76, 88, 100, 112, 124}

SnapInit ==
  /\ LayoutIdle
  /\ OtherIdle
  /\ Unmounted
  /\ localStorage = EmptyStorage

SnapNext ==
  \/ Mount("A")
  \/ \E id \in AssetIds, edge \in {"left", "right"}, box \in SnapBoxes, x \in GrabXs :
       handleAspectDragStart(id, edge, box, x)
  \/ \E x \in SnapPointerXs : handleMouseMove(x)
  \/ handleMouseUp
  \/ \E id \in AssetIds : handleResetAspectRatio(id)

SnapSpec == SnapInit /\ [][SnapNext]_vars

\* ======================================================================
\* App (src/unnamed/part_001)
\* ======================================================================
\* the server holds MaxAppAlbums albums
MaxAppAlbums == 15

AppAlbums == 1 .. MaxAppAlbums

\* the effect on [immichConfig] starts getAlbumInfo for the stored album id
StartsLoad(config, storage, selected) ==
  config /\ storage.lastAlbumId # NoAlbum /\ selected = NoAlbum

\* what the user sees
AlbumViewShown == immichConfig /\ ~isLoadingAlbum /\ selectedAlbum # NoAlbum

SelectorShown == immichConfig /\ ~isLoadingAlbum /\ selectedAlbum = NoAlbum

\* the page is loaded: App is constructed, the mount effect reads the stored
\* connection and the effect on [immichConfig] runs; requests of the page
\* before are gone
LoadPage ==
  /\ immichConfig' = appStorage.config
  /\ selectedAlbum' = NoAlbum
  /\ isLoadingAlbum' = StartsLoad(appStorage.config, appStorage, NoAlbum)
  /\ pendingLoads' = IF StartsLoad(appStorage.config, appStorage, NoAlbum)
                       THEN {appStorage.lastAlbumId} ELSE {}
  /\ UNCHANGED <<layoutVars, gridVars, reorderVars, rowVars, appStorage>>

\* ConnectionForm stores the connection and calls onConnect; the effect on
\* [immichConfig] follows
handleConnect ==
  /\ ~immichConfig
  /\ immichConfig' = TRUE
  /\ appStorage' = [appStorage EXCEPT !.config = TRUE]
  /\ IF StartsLoad(TRUE, appStorage, selectedAlbum)
       THEN /\ isLoadingAlbum' = TRUE
            /\ pendingLoads' = pendingLoads \cup {appStorage.lastAlbumId}
       ELSE UNCHANGED <<isLoadingAlbum, pendingLoads>>
  /\ UNCHANGED <<layoutVars, gridVars, reorderVars, rowVars, selectedAlbum>>

\* the Disconnect button is there whenever immichConfig is set
handleDisconnect ==
  /\ immichConfig
  /\ immichConfig' = FALSE
  /\ selectedAlbum' = NoAlbum
  /\ appStorage' = [config |-> FALSE, lastAlbumId |-> NoAlbum]
  /\ UNCHANGED <<layoutVars, gridVars, reorderVars, rowVars, isLoadingAlbum, pendingLoads>>

handleAlbumSelect(a) ==
  /\ SelectorShown
  /\ selectedAlbum' = a
  /\ appStorage' = [appStorage EXCEPT !.lastAlbumId = a]
  /\ UNCHANGED <<layoutVars, gridVars, reorderVars, rowVars, immichConfig,
                 isLoadingAlbum, pendingLoads>>

handleBackToAlbums ==
  /\ AlbumViewShown
  /\ selectedAlbum' = NoAlbum
  /\ UNCHANGED <<layoutVars, gridVars, reorderVars, rowVars, immichConfig,
                 isLoadingAlbum, pendingLoads, appStorage>>

\* getAlbumInfo answers: .then and .finally
LoadResolved(a) ==
  /\ a \in pendingLoads
  /\ pendingLoads' = pendingLoads \ {a}
  /\ selectedAlbum' = a
  /\ isLoadingAlbum' = FALSE
  /\ UNCHANGED <<layoutVars, gridVars, reorderVars, rowVars, immichConfig, appStorage>>

\* getAlbumInfo fails: .catch and .finally
LoadRejected(a) ==
  /\ a \in pendingLoads
  /\ pendingLoads' = pendingLoads \ {a}
  /\ appStorage' = [appStorage EXCEPT !.lastAlbumId = NoAlbum]
  /\ isLoadingAlbum' = FALSE
  /\ UNCHANGED <<layoutVars, gridVars, reorderVars, rowVars, immichConfig, selectedAlbum>>

AppInit == LayoutIdle /\ GridIdle /\ OtherIdle

AppNext ==
  \/ LoadPage
  \/ handleConnect
  \/ handleDisconnect
  \/ \E a \in AppAlbums : handleAlbumSelect(a)
  \/ handleBackToAlbums
  \/ \E a \in AppAlbums : LoadResolved(a)
  \/ \E a \in AppAlbums : LoadRejected(a)

AppSpec == AppInit /\ [][AppNext]_vars

\* ======================================================================
\* Row heights set by hand (src/unnamed/part_006)
\* ======================================================================
\* the layout has MaxRowPages pages of MaxRows rows; a manual height is at
\* most MaxCustomHeight pixels
MaxRowPages == 2

MaxRows == 3

MaxCustomHeight == 300

\* the rows as calculatePageLayout returns them: 200 pixels high, 20 pixels
\* apart, below a margin of 100 pixels, two photos in each, no manual height
\* (customHeight undefined is written 0)
NaturalRow(p, r) ==
  LET top == Px(100) + (r - 1) * Px(220)
  IN  [y |-> top, height |-> Px(200), customHeight |-> 0,
       photos |-> [k \in 1 .. 2 |->
                     [asset |-> (p - 1) * 2 * MaxRows + (r - 1) * 2 + k,
                      x |-> Px(100) + (k - 1) * Px(320), y |-> top,
                      width |-> Px(300), height |-> Px(200)]]]

RECURSIVE FlatPhotos(_)
FlatPhotos(rows) ==
  IF Len(rows) = 0 THEN << >> ELSE Head(rows).photos \o FlatPhotos(Tail(rows))

NaturalPages ==
  [p \in 1 .. MaxRowPages |->
     LET rows == [r \in 1 .. MaxRows |-> NaturalRow(p, r)]
     IN  [pageNumber |-> p, rows |-> rows, photos |-> FlatPhotos(rows)]]

\* fault variant of AdjustRows: an overridden row is moved by its own delta
RECURSIVE AdjustRows_OwnDelta(_, _)
AdjustRows_OwnDelta(rows, cumulativeYOffset) ==
  IF Len(rows) = 0 THEN << >>
  ELSE LET row == Head(rows)
           heightDelta == IF row.customHeight # 0 THEN row.customHeight - row.height ELSE 0
           offset == cumulativeYOffset + heightDelta
       IN  <<[row EXCEPT
                !.y = @ + offset,
                !.height = IF row.customHeight # 0 THEN row.customHeight ELSE @,
                !.photos = [k \in 1 .. Len(row.photos) |->
                              [row.photos[k] EXCEPT
                                 !.y = @ + offset,
                                 !.height = IF row.customHeight # 0
                                              THEN (@ * row.customHeight) \div row.height
                                              ELSE @]]]>>
             \o AdjustRows_OwnDelta(Tail(rows), offset)

\* page.rows.map(...) with its running cumulativeYOffset
RECURSIVE AdjustRows(_, _)
AdjustRows(rows, cumulativeYOffset) ==
  IF Len(rows) = 0 THEN << >>
  ELSE LET row == Head(rows)
       IN  IF row.customHeight # 0
             THEN LET heightDelta == row.customHeight - row.height
                      adjustedPhotos ==
                        [k \in 1 .. Len(row.photos) |->
                           [row.photos[k] EXCEPT
                              !.y = @ + cumulativeYOffset,
                              !.height = (@ * row.customHeight) \div row.height]]
                      offset == cumulativeYOffset + heightDelta
                  IN  <<[row EXCEPT !.y = @ + offset - heightDelta,
                                    !.height = row.customHeight,
                                    !.photos = adjustedPhotos]>>
                        \o AdjustRows(Tail(rows), offset)
             ELSE LET adjustedPhotos ==
                        [k \in 1 .. Len(row.photos) |->
                           [row.photos[k] EXCEPT !.y = @ + cumulativeYOffset]]
                  IN  <<[row EXCEPT !.y = @ + cumulativeYOffset,
                                    !.photos = adjustedPhotos]>>
                        \o AdjustRows(Tail(rows), cumulativeYOffset)

\* the adjustedPages memo
AdjustedPagesOf(ps) ==
  [p \in 1 .. Len(ps) |->
     LET adjustedRows == AdjustRows(ps[p].rows, 0)
     IN  [ps[p] EXCEPT !.rows = adjustedRows, !.photos = FlatPhotos(adjustedRows)]]

\* mousedown on the overlay of a row of the pages shown
handleRowMouseDown(pageNumber, rowIndex, clientY) ==
  /\ ~dragState.active
  /\ pageNumber \in 1 .. Len(adjustedPages)
  /\ rowIndex < Len(adjustedPages[pageNumber].rows)
  /\ dragState' = [active |-> TRUE, pageNumber |-> pageNumber, rowIndex |-> rowIndex,
                   startY |-> clientY,
                   originalHeight |-> adjustedPages[pageNumber].rows[rowIndex + 1].height]
  /\ UNCHANGED <<layoutVars, gridVars, reorderVars, appVars, rowPages, adjustedPages>>

\* mousemove while a row is dragged: the row gets its manual height and the
\* memo is computed again
handleRowMouseMove(clientY) ==
  /\ dragState.active
  /\ LET deltaY == clientY - dragState.startY
         deltaPixels == (Px(deltaY) * 300) \div 72
         newHeight == Max(Px(100), dragState.originalHeight + deltaPixels)
     IN  /\ newHeight <= Px(MaxCustomHeight)
         /\ rowPages' =
              [rowPages EXCEPT
                 ![dragState.pageNumber].rows[dragState.rowIndex + 1].customHeight = newHeight]
  /\ adjustedPages' = AdjustedPagesOf(rowPages')
  /\ UNCHANGED <<layoutVars, gridVars, reorderVars, appVars, dragState>>

handleRowMouseUp ==
  /\ dragState.active
  /\ dragState' = NoRowDrag
  /\ UNCHANGED <<layoutVars, gridVars, reorderVars, appVars, rowPages, adjustedPages>>

RowGrabYs == {100}

RowPointerYs == {64, 88, 112}

RowInit ==
  /\ LayoutIdle
  /\ GridIdle
  /\ reorderDragState = NoReorderDrag
  /\ dropTargetIndex = NoIndex
  /\ dragSession = "none"
  /\ immichConfig = FALSE
  /\ selectedAlbum = NoAlbum
  /\ isLoadingAlbum = FALSE
  /\ pendingLoads = {}
  /\ appStorage = [config |-> FALSE, lastAlbumId |-> NoAlbum]
  /\ rowPages = NaturalPages
  /\ adjustedPages = AdjustedPagesOf(NaturalPages)
  /\ dragState = NoRowDrag

\* the rows of the first page are dragged
RowNext ==
  \/ \E rowIndex \in 0 .. MaxRows - 1, y \in RowGrabYs : handleRowMouseDown(1, rowIndex, y)
  \/ \E y \in RowPointerYs : handleRowMouseMove(y)
  \/ handleRowMouseUp

RowSpec == RowInit /\ [][RowNext]_vars

\* ======================================================================
\* Properties
\* ======================================================================
Returned == pc = "done"

Paginated == pc \in {"align", "combine", "done"}

Aligned == pc \in {"combine", "done"}

pageWidth == PageDimensions(options).width

pageHeight == PageDimensions(options).height

RECURSIVE PhotoAssets(_)
PhotoAssets(ps) ==
  IF Len(ps) = 0 THEN << >>
  ELSE [k \in 1 .. Len(Head(ps).photos) |-> Head(ps).photos[k].asset]
       \o PhotoAssets(Tail(ps))

\* the single page that holds the asset, before alignment and combination
PageOf(a) ==
  CHOOSE p \in 1 .. Len(prePages) :
    \E k \in 1 .. Len(prePages[p].photos) : prePages[p].photos[k].asset = a

\* the packed top at which a single page begins
PackedTopOf(p) ==
  IF p = 1 THEN 0 ELSE strip[prePages[p].photos[1].asset].top

Oversized(a) == strip[a].height > contentHeight(options)

\* C1: for a non-empty asset list the photos of the returned pages, taken in
\* page order, are the input assets, each once and in input order.
C1_Conservation ==
  (Returned /\ Len(assets) > 0) => PhotoAssets(result) = assets

C1_Witness ==
  /\ Returned
  /\ Len(assets) = MaxAssets
  /\ options.combinePages
  /\ options.pageAlignments.defined
  /\ Len(result) >= 2

\* C2: no returned page has an empty photo list, and an empty asset list
\* gives zero pages.
C2_NoEmptyPage ==
  Returned =>
    /\ \A p \in 1 .. Len(result) : Len(result[p].photos) > 0
    /\ (Len(assets) = 0 => Len(result) = 0)

C2_Witness ==
  /\ Returned
  /\ Len(assets) >= 2
  /\ Oversized(1)
  /\ \A p \in 1 .. Len(result) : Len(result[p].photos) > 0

\* C3 as stated: every box of the paginator, before alignment, ends inside
\* the content area both vertically and horizontally.
C3_NoOverflowAnyBox ==
  Paginated =>
    \A p \in 1 .. Len(prePages) : \A k \in 1 .. Len(prePages[p].photos) :
      LET b == prePages[p].photos[k]
      IN  /\ b.y + b.height <= pageHeight - options.margin
          /\ b.x + b.width <= pageWidth - options.margin

\* C3 (amended): every box of the paginator, before alignment, ends inside
\* the content area horizontally, and vertically too unless the box is
\* taller than the content height.
C3_NoOverflow ==
  Paginated =>
    \A p \in 1 .. Len(prePages) : \A k \in 1 .. Len(prePages[p].photos) :
      LET b == prePages[p].photos[k]
      IN  /\ b.x + b.width <= pageWidth - options.margin
          /\ b.height <= contentHeight(options)
               => b.y + b.height <= pageHeight - options.margin

C3_Witness ==
  /\ Paginated
  /\ \E p \in 2 .. Len(prePages) : \E k \in 2 .. Len(prePages[p].photos) :
       LET b == prePages[p].photos[k]
       IN  /\ b.y > options.margin
           /\ b.y + b.height = pageHeight - options.margin

\* C4: boxes that share a packed top are on the same page, also when the
\* row is taller than the content height.
C4_RowNeverSplit ==
  Paginated =>
    \A a, b \in 1 .. Len(strip) :
      strip[a].top = strip[b].top => PageOf(a) = PageOf(b)

\* C5: the returned pages are numbered 1, 2, ..., n in output order.
C5_SequentialNumbers ==
  Returned => \A p \in 1 .. Len(result) : result[p].pageNumber = p

C5_Witness ==
  /\ Returned
  /\ ~options.combinePages
  /\ Len(result) = 3
  /\ result[3].pageNumber = 3

\* C6: a box goes to a new page only if its packed bottom minus the packed
\* top of the page of the box before it strictly exceeds the content
\* height; a box that still fits, exactly or with room, stays on that page.
C6_Minimality ==
  Paginated =>
    \A a \in 2 .. Len(strip) :
      LET before == PageOf(a - 1)
          bottom == strip[a].top + strip[a].height
      IN  /\ PageOf(a) # before
               => bottom - PackedTopOf(before) > contentHeight(options)
          /\ bottom - PackedTopOf(before) = contentHeight(options)
               => PageOf(a) = before

C6_Witness ==
  /\ Paginated
  /\ Len(prePages) >= 2
  /\ \E a \in 2 .. Len(strip) :
       /\ strip[a].top > strip[a - 1].top
       /\ strip[a].top + strip[a].height - PackedTopOf(PageOf(a - 1))
            = contentHeight(options)
       /\ PageOf(a) = PageOf(a - 1)

\* C7: with combinePages, N single pages give ceil(N/2) spreads, each of
\* width 2 x pageWidth and height pageHeight, a trailing lone page included.
C7_SpreadCount ==
  (Returned /\ options.combinePages /\ Len(assets) > 0) =>
    /\ 2 * Len(result) \in {Len(pages), Len(pages) + 1}
    /\ \A s \in 1 .. Len(result) :
         /\ result[s].width = 2 * pageWidth
         /\ result[s].height = pageHeight

C7_Witness ==
  /\ Returned
  /\ options.combinePages
  /\ Len(pages) = 3
  /\ Len(result) = 2
  /\ result[2].width = 2 * pageWidth

\* C8: spread s holds the boxes of single page 2s-1 unchanged, then the
\* boxes of single page 2s with x increased by pageWidth and nothing else
\* changed; a trailing lone page is not shifted.
C8_SpreadContent ==
  (Returned /\ options.combinePages /\ Len(assets) > 0) =>
    \A s \in 1 .. Len(result) :
      LET leftPhotos  == pages[2 * s - 1].photos
          rightPhotos == IF 2 * s <= Len(pages) THEN pages[2 * s].photos ELSE << >>
          photos      == result[s].photos
      IN  /\ Len(photos) = Len(leftPhotos) + Len(rightPhotos)
          /\ \A k \in 1 .. Len(leftPhotos) : photos[k] = leftPhotos[k]
          /\ \A k \in 1 .. Len(rightPhotos) :
               LET b == photos[Len(leftPhotos) + k]
                   r == rightPhotos[k]
               IN  /\ b.asset = r.asset
                   /\ b.x = r.x + pageWidth
                   /\ b.y = r.y
                   /\ b.width = r.width
                   /\ b.height = r.height

C8_Witness ==
  /\ Returned
  /\ options.combinePages
  /\ Len(pages) = 3
  /\ Len(result[1].photos) = 2
  /\ result[1].photos[2].x = pages[2].photos[1].x + pageWidth
  /\ result[2].photos = pages[3].photos

\* what calculatePageLayout returns when no pageAlignments map is passed
ResultWithoutMap ==
  IF options.combinePages THEN CombinePages(prePages, options) ELSE prePages

\* the boxes of single page p inside a returned page list
BoxesOfPage(res, p) ==
  IF ~options.combinePages THEN res[p].photos
  ELSE IF p % 2 = 1
       THEN SubSeq(res[(p + 1) \div 2].photos, 1, Len(prePages[p].photos))
       ELSE SubSeq(res[p \div 2].photos, Len(prePages[p - 1].photos) + 1,
                   Len(res[p \div 2].photos))

\* C9: for every page whose pageAlignments entry is 'left' or absent, every
\* box equals the box computed when no pageAlignments map is passed.
C9_LeftIsNoOp ==
  (Returned /\ options.pageAlignments.defined) =>
    \A p \in 1 .. Len(prePages) :
      (p \notin DOMAIN options.pageAlignments.map
         \/ options.pageAlignments.map[p] = "left")
        => BoxesOfPage(result, p) = BoxesOfPage(ResultWithoutMap, p)

C9_Witness ==
  /\ Returned
  /\ options.pageAlignments.defined
  /\ Len(prePages) = 3
  /\ 1 \in DOMAIN options.pageAlignments.map
  /\ options.pageAlignments.map[1] = "left"
  /\ pages[2] # prePages[2]
  /\ BoxesOfPage(result, 3) = BoxesOfPage(ResultWithoutMap, 3)

\* C10: after 'center' alignment of a page the slack left of the used span
\* and the slack right of it differ by at most one pixel.
C10_CenterSlack ==
  (Aligned /\ options.pageAlignments.defined) =>
    \A p \in 1 .. Len(pages) :
      (p \in DOMAIN options.pageAlignments.map
         /\ options.pageAlignments.map[p] = "center")
        => LET leftSlack  == MinLeftEdge(pages[p].photos) - options.margin
               rightSlack == options.margin + contentWidth(options)
                               - MaxRightEdge(pages[p].photos)
           IN  /\ leftSlack - rightSlack <= OnePixel
               /\ rightSlack - leftSlack <= OnePixel

C10_Witness ==
  /\ Aligned
  /\ options.pageAlignments.defined
  /\ \E p \in DOMAIN options.pageAlignments.map :
       /\ p <= Len(pages)
       /\ options.pageAlignments.map[p] = "center"
       /\ Len(pages[p].photos) >= 2
       /\ pages[p] # prePages[p]
       /\ MinLeftEdge(pages[p].photos) - options.margin
            = options.margin + contentWidth(options) - MaxRightEdge(pages[p].photos)

\* C11: after 'right' alignment of a page the maximum right edge of its
\* boxes equals margin + contentWidth.
C11_RightEdge ==
  (Aligned /\ options.pageAlignments.defined) =>
    \A p \in 1 .. Len(pages) :
      (p \in DOMAIN options.pageAlignments.map
         /\ options.pageAlignments.map[p] = "right")
        => MaxRightEdge(pages[p].photos) = options.margin + contentWidth(options)

C11_Witness ==
  /\ Aligned
  /\ options.pageAlignments.defined
  /\ options.margin > 0
  /\ \E p \in DOMAIN options.pageAlignments.map :
       /\ p <= Len(pages)
       /\ options.pageAlignments.map[p] = "right"
       /\ pages[p] # prePages[p]
       /\ MaxRightEdge(pages[p].photos) = pageWidth - options.margin

\* ------------------------------------------------ preview page labels
\* PhotoGrid: totalLogicalPages = combinePages ? pages.length * 2 : pages.length
totalLogicalPages(ps, combine) ==
  IF combine THEN Len(ps) * 2 ELSE Len(ps)

\* PhotoGrid preview: the numbers shown in the label of a page; right = 0
\* when the label names one page only
pageLabel(page, ps, combine) ==
  LET total        == totalLogicalPages(ps, combine)
      leftPageNum  == page.pageNumber * 2 - 1
      rightPageNum == page.pageNumber * 2
  IN  IF combine
      THEN IF rightPageNum <= total
           THEN [left |-> leftPageNum, right |-> rightPageNum, total |-> total]
           ELSE [left |-> leftPageNum, right |-> 0, total |-> total]
      ELSE [left |-> page.pageNumber, right |-> 0, total |-> total]

\* C20: in combined mode the label of spread s shows pages 2s-1 and 2s when
\* the spread holds two logical pages and only 2s-1 when it is the last
\* spread of an odd number of logical pages; the total shown is the number
\* of logical pages.
C20_SpreadLabel ==
  (Returned /\ options.combinePages) =>
    \A s \in 1 .. Len(result) :
      pageLabel(result[s], result, TRUE) =
        [left  |-> 2 * s - 1,
         right |-> IF 2 * s <= Len(prePages) THEN 2 * s ELSE 0,
         total |-> Len(prePages)]

\* ------------------------------------------------ ratios and caption space
Laid == phase = "laid"

Truthy(d) == d.known /\ d.value # 0

\* C12: the ratio handed to the packer is the override when the override map
\* has an entry for the asset; otherwise width / height of the asset, swapped
\* when the orientation is '6'; otherwise 1 when both dimensions are unknown.
\* It is never a division by zero and always positive, also when one of the
\* dimensions is missing or zero.
C12_RatioResolution ==
  Laid =>
    /\ aspectRatio.den # 0
    /\ aspectRatio.num > 0 /\ aspectRatio.den > 0
    /\ gridAsset.id \in DOMAIN adjustedAspectRatios
         => aspectRatio = adjustedAspectRatios[gridAsset.id]
    /\ (gridAsset.id \notin DOMAIN adjustedAspectRatios
          /\ Truthy(gridAsset.exifImageWidth) /\ Truthy(gridAsset.exifImageHeight))
         => IF gridAsset.orientation = "6"
              THEN RatioEq(aspectRatio, Ratio(gridAsset.exifImageHeight.value,
                                              gridAsset.exifImageWidth.value))
              ELSE RatioEq(aspectRatio, Ratio(gridAsset.exifImageWidth.value,
                                              gridAsset.exifImageHeight.value))
    /\ (gridAsset.id \notin DOMAIN adjustedAspectRatios
          /\ ~Truthy(gridAsset.exifImageWidth) /\ ~Truthy(gridAsset.exifImageHeight))
         => RatioEq(aspectRatio, Ratio(1, 1))

C12_Witness ==
  /\ Laid
  /\ gridAsset.id \notin DOMAIN adjustedAspectRatios
  /\ adjustedAspectRatios # << >>
  /\ gridAsset.exifImageWidth = Known(3)
  /\ gridAsset.exifImageHeight = Known(0)
  /\ gridAsset.orientation = "6"
  /\ aspectRatio = Ratio(1, 3)

\* the asset's caption is shown beside the image
Beside ==
  /\ settings.showDescriptions
  /\ gridAsset.description # ""
  /\ gridAsset.id \in DOMAIN descriptionPositions
  /\ descriptionPositions[gridAsset.id] \in {"left", "right"}

SplitsBox(r) ==
  IF Beside
    THEN /\ 2 * r.imageWidth = r.containerWidth
         /\ r.captionWidth = r.containerWidth - r.imageWidth
    ELSE /\ r.imageWidth = r.containerWidth
         /\ r.captionWidth = 0

\* C13: the asset is packed with twice its resolved ratio (override, else
\* natural) exactly when descriptions are shown, it has a caption and the
\* caption position is left or right; for exactly those assets the preview
\* and the PDF give the image half of the box width and the caption the
\* other half, and otherwise the image gets the full box width.
C13_DoublingConsistent ==
  Laid =>
    /\ IF Beside
         THEN RatioEq(aspectRatio, Double(AspectRatioOf(gridAsset, customAspectRatios)))
         ELSE RatioEq(aspectRatio, AspectRatioOf(gridAsset, customAspectRatios))
    /\ rendered.pdf # NotRendered
         => rendered.pdf.containerWidth = toPoints(photoBox.width) /\ SplitsBox(rendered.pdf)
    /\ rendered.preview # NotRendered
         => rendered.preview.containerWidth = toPoints(photoBox.width)
              /\ SplitsBox(rendered.preview)

C13_Witness ==
  /\ Laid
  /\ Beside
  /\ gridAsset.id \notin DOMAIN customAspectRatios
  /\ gridAsset.orientation = "6"
  /\ aspectRatio = Ratio(4, 3)
  /\ rendered.pdf # NotRendered /\ rendered.preview # NotRendered
  /\ rendered.pdf.imageWidth = Half(toPoints(photoBox.width))
  /\ rendered.preview.captionWidth = rendered.preview.imageWidth

\* ------------------------------------------------------ loading a config
ExpectedLoaded(ls, a, k) ==
  IF ls.albums[a].kind = "json" /\ k \in DOMAIN ls.albums[a].value
    THEN ls.albums[a].value[k]
    ELSE IF k \in CustomizationKeys
      THEN NoCustomizations[k]
      ELSE IF ls.global.kind = "json" /\ k \in DOMAIN ls.global.value
        THEN ls.global.value[k]
        ELSE DEFAULT_GLOBAL_CONFIG[k]

\* C17: whatever localStorage holds (records absent, unparsable or partial),
\* opening an album loads a configuration with every known key, whose value
\* is the album record's when it has the key, otherwise the stored global
\* value, otherwise the built-in default; the three customizations are empty
\* when the album record lacks them.
C17_MergeOrder ==
  [][ (phase = "unmounted" /\ phase' = "mounted") =>
        \A k \in KnownKeys :
          /\ k \in DOMAIN initialConfig'
          /\ initialConfig'[k] = ExpectedLoaded(localStorage, album', k) ]_vars

C17_Witness ==
  /\ phase = "mounted"
  /\ album = "A"
  /\ initialConfig.pageWidth = Px(2000)
  /\ initialConfig.margin = Px(200)
  /\ initialConfig.rowHeight = Px(600)
  /\ initialConfig.customAspectRatios = << >>
  /\ initialConfig.customOrdering = NullOrdering

\* ------------------------------------------------------ the number inputs
Mounted == phase = "mounted"

\* C15: after every change of a setting the album record in localStorage
\* holds the clamped value of each of the five numbers.
C15_SavedClamped ==
  Mounted =>
    /\ localStorage.albums[album].kind = "json"
    /\ LET stored == localStorage.albums[album].value
       IN  /\ stored.pageWidth = validPageWidth(settings)
           /\ stored.pageHeight = validPageHeight(settings)
           /\ stored.margin = validMargin(settings)
           /\ stored.rowHeight = validRowHeight(settings)
           /\ stored.spacing = validSpacing(settings)

\* C16: whatever page width, page height and margin the user has entered,
\* the options passed to calculatePageLayout have a content width and a
\* content height above zero.
C16_PositiveContentArea ==
  Mounted =>
    /\ contentWidth(LayoutOptionsOf(settings)) > 0
    /\ contentHeight(LayoutOptionsOf(settings)) > 0

\* ------------------------------------------------------- customizations
\* C18: while an aspect-ratio drag is in progress neither customAspectRatios
\* nor localStorage changes.
C18_DragTransient ==
  [][ (aspectDragState.active /\ aspectDragState'.active) =>
        (customAspectRatios' = customAspectRatios /\ localStorage' = localStorage) ]_vars

PositionIn(m, id) == IF id \in DOMAIN m THEN m[id] ELSE "bottom"

NextInCycle(p) ==
  CASE p = "bottom" -> "top" [] p = "top" -> "left" [] p = "left" -> "right"
    [] p = "right" -> "bottom"

\* C19: in every state reached through description clicks and resets, a
\* click moves the asset's position one step along bottom, top, left, right,
\* bottom, leaves the entries of the other assets as they are, four clicks
\* on the same asset give the map back, and no entry is 'bottom'.
C19_ClickCycle ==
  Mounted =>
    /\ \A id \in DOMAIN descriptionPositions : descriptionPositions[id] # "bottom"
    /\ \A id \in AssetIds :
         LET m1 == CycledPositions(descriptionPositions, id)
             m2 == CycledPositions(m1, id)
             m3 == CycledPositions(m2, id)
             m4 == CycledPositions(m3, id)
         IN  /\ PositionIn(m1, id) = NextInCycle(PositionIn(descriptionPositions, id))
             /\ \A k \in DOMAIN m1 : m1[k] # "bottom"
             /\ \A other \in AssetIds \ {id} :
                  /\ (other \in DOMAIN m1) = (other \in DOMAIN descriptionPositions)
                  /\ PositionIn(m1, other) = PositionIn(descriptionPositions, other)
             /\ m4 = descriptionPositions

C19_Witness ==
  /\ Mounted
  /\ DOMAIN descriptionPositions = {1, 2}
  /\ descriptionPositions[1] = "right"
  /\ descriptionPositions[2] = "top"
  /\ localStorage.albums[album].value.descriptionPositions = descriptionPositions

\* ------------------------------------------------- re-basing, dimensions
\* C21: every box of the paginator has x = packed left + margin and
\* y = packed top - currentPageTop + margin, where currentPageTop is 0 for
\* page 1 and the packed top of the page's first box for a later page; so the
\* first box of every page after the first has y = margin.
C21_Rebase ==
  Paginated =>
    \A p \in 1 .. Len(prePages) :
      /\ \A k \in 1 .. Len(prePages[p].photos) :
           LET b == prePages[p].photos[k]
           IN  /\ b.x = strip[b.asset].left + options.margin
               /\ b.y = strip[b.asset].top - PackedTopOf(p) + options.margin
      /\ p > 1 => prePages[p].photos[1].y = options.margin

C21_Witness ==
  /\ Paginated
  /\ options.margin > 0
  /\ Len(prePages) >= 2
  /\ \E p \in 2 .. Len(prePages) :
       /\ strip[prePages[p].photos[1].asset].top > 0
       /\ prePages[p].photos[1].y = options.margin
       /\ Len(prePages[p].photos) >= 2
       /\ prePages[p].photos[2].x > options.margin

\* C22: alignment is applied per logical page before the pages are combined:
\* in a spread the boxes of logical page p have the x the paginator gave them
\* plus the shift of the alignment configured for page number p, plus the
\* page width when p is the right half; the map is not read by spread number.
C22_AlignBeforeCombine ==
  (Returned /\ options.combinePages /\ options.pageAlignments.defined) =>
    \A p \in 1 .. Len(prePages) :
      LET configured == IF p \in DOMAIN options.pageAlignments.map
                          THEN options.pageAlignments.map[p] ELSE "left"
          pre        == prePages[p].photos
          half       == IF p % 2 = 0 THEN pageWidth ELSE 0
          boxes      == BoxesOfPage(result, p)
      IN  /\ Len(boxes) = Len(pre)
          /\ \A k \in 1 .. Len(pre) :
               boxes[k].x = pre[k].x + Shift(configured, pre, options) + half

C22_Witness ==
  /\ Returned
  /\ options.combinePages
  /\ options.pageAlignments.defined
  /\ Len(prePages) >= 2
  /\ DOMAIN options.pageAlignments.map = {1, 2}
  /\ options.pageAlignments.map[1] = "left"
  /\ options.pageAlignments.map[2] = "right"
  /\ Shift("right", prePages[2].photos, options) > 0
  /\ Shift("right", prePages[1].photos, options) > 0
  /\ result[1].photos[1].x = prePages[1].photos[1].x
  /\ BoxesOfPage(result, 2)[1].x
       = prePages[2].photos[1].x + Shift("right", prePages[2].photos, options) + pageWidth

\* the dimensions the options ask for
ExpectedDimensions ==
  CASE options.pageSize = "CUSTOM" /\ options.customWidth # 0 /\ options.customHeight # 0
         -> [width |-> options.customWidth, height |-> options.customHeight]
    [] options.pageSize = "CUSTOM" /\ (options.customWidth = 0 \/ options.customHeight = 0)
         -> PAGE_SIZES.A4.portrait
    [] options.pageSize # "CUSTOM"
         -> PAGE_SIZES[options.pageSize][options.orientation]

\* C23: the page dimensions are the custom width and height when the page
\* size is CUSTOM and both are given and non-zero, the named size in the given
\* orientation when the page size is not CUSTOM, and A4 portrait when it is
\* CUSTOM and a custom dimension is missing or zero; every single page, and
\* every page returned without combining, has these dimensions.
C23_PageDimensions ==
  /\ Paginated =>
       \A p \in 1 .. Len(prePages) :
         /\ prePages[p].width = ExpectedDimensions.width
         /\ prePages[p].height = ExpectedDimensions.height
  /\ (Returned /\ ~options.combinePages) =>
       \A p \in 1 .. Len(result) :
         /\ result[p].width = ExpectedDimensions.width
         /\ result[p].height = ExpectedDimensions.height

C23_Witness ==
  /\ Returned
  /\ ~options.combinePages
  /\ options.pageSize = "CUSTOM"
  /\ options.orientation = "landscape"
  /\ options.customWidth = 0
  /\ options.customHeight # 0
  /\ Len(result) >= 1
  /\ result[1].width = PAGE_SIZES.A4.portrait.width
  /\ result[1].height = PAGE_SIZES.A4.portrait.height
\* ------------------------------------------------------------ reordering
IsPermutation(s, t) ==
  /\ Len(s) = Len(t)
  /\ Elements(s) = Elements(t)
  /\ Cardinality(Elements(s)) = Len(s)
  /\ Cardinality(Elements(t)) = Len(t)

Others(s, id) == LET Other(x) == x # id IN SelectSeq(s, Other)

\* what a drop on index t makes of the ordering
DropReorders(t) ==
  LET d == reorderDragState.draggedIndex
      current == shownAssets
  IN  IF reorderDragState.active /\ d # t
        THEN /\ ~customOrdering'.isNull
             /\ IsPermutation(customOrdering'.ids, current)
             /\ customOrdering'.ids[t + 1] = current[d + 1]
             /\ Others(customOrdering'.ids, current[d + 1]) = Others(current, current[d + 1])
        ELSE customOrdering' = customOrdering

DragCleared ==
  /\ reorderDragState' = NoReorderDrag
  /\ dropTargetIndex' = NoIndex

\* C24: a drop of the asset at index d on index t # d makes customOrdering
\* the ids shown with the dragged one moved to index t and the others in
\* their order; a drop with d = t or without a drag leaves customOrdering
\* alone; every drop and every drag end clears the drag state and the drop
\* target.
C24_ReorderDrop ==
  [][ /\ \A t \in ReorderIndices : handleReorderDrop(t) => DropReorders(t) /\ DragCleared
      /\ handleReorderDragEnd => DragCleared ]_vars

\* the part of C24 about the ordering alone
C24_Ordering ==
  [][ \A t \in ReorderIndices : handleReorderDrop(t) => DropReorders(t) ]_vars

\* C25: the list passed to the layout is a permutation of the default
\* filtered list: the ids of customOrdering that are visible, in its order,
\* then the visible ids it lacks, in default order.
C25_FilteredPermutation ==
  Mounted =>
    LET default == defaultFilteredAssets(settings.filterVideos)
        Visible(id) == id \in Elements(default)
        Missing_(id) == id \notin Elements(customOrdering.ids)
    IN  /\ IsPermutation(shownAssets, default)
        /\ ~customOrdering.isNull =>
             /\ Others(shownAssets, 0) =
                  SelectSeq(customOrdering.ids, Visible) \o SelectSeq(default, Missing_)
             /\ Cardinality(Elements(customOrdering.ids)) = Len(customOrdering.ids)

\* the ordering was made while the video was hidden, and the video is shown
C25_Witness ==
  /\ Mounted
  /\ ~settings.filterVideos
  /\ customOrdering = [isNull |-> FALSE, ids |-> <<3, 1>>]
  /\ shownAssets = <<3, 1, 2>>

\* the ordering holds the video, and the video is hidden
C25_WitnessHidden ==
  /\ Mounted
  /\ settings.filterVideos
  /\ customOrdering = [isNull |-> FALSE, ids |-> <<2, 3, 1>>]
  /\ shownAssets = <<3, 1>>
\* ------------------------------------------------- one album after another
\* the configuration the component holds, as the save effect writes it
CurrentConfig ==
  Spread(settings, [customAspectRatios |-> customAspectRatios,
                    customOrdering |-> customOrdering,
                    descriptionPositions |-> descriptionPositions])

\* C26: a step that writes to localStorage leaves in it, for the album that
\* is open, a record that loadAlbumConfig reads back as the configuration
\* saved, and overwrites the global record with the settings saved; for every
\* other album that has a record, loadAlbumConfig returns what it returned
\* before the step.
C26_IsolatedRoundTrip ==
  [][ /\ localStorage' # localStorage =>
           /\ loadAlbumConfig(localStorage', album') = CurrentConfig'
           /\ localStorage'.global = Json(settings')
      /\ \A b \in AlbumIds :
           (b # album /\ b # album' /\ localStorage.albums[b].kind = "json") =>
             /\ localStorage'.albums[b].kind = "json"
             /\ loadAlbumConfig(localStorage', b) = loadAlbumConfig(localStorage, b) ]_vars

\* album A is open and was saved after album B, whose record holds an
\* override, an ordering and a setting that differs from the global record
C26_Witness ==
  /\ Mounted
  /\ album = "A"
  /\ descriptionPositions # << >>
  /\ loadAlbumConfig(localStorage, "A") = CurrentConfig
  /\ localStorage.albums["B"].kind = "json"
  /\ LET b == loadAlbumConfig(localStorage, "B")
     IN  /\ b.customAspectRatios # << >>
         /\ ~b.customOrdering.isNull
         /\ b.descriptionPositions = << >>
         /\ b.combinePages # loadGlobalConfig(localStorage).combinePages
\* ------------------------------------------------------ snapping a resize
\* the right edge of the content area of the page a box at x lies on
ContentRightOf(x) ==
  LET page == x \div validPageWidth(settings)
  IN  page * validPageWidth(settings) + validPageWidth(settings) - validMargin(settings)

\* the width a move of the pointer to clientX asks for
CandidateWidth(d, clientX) ==
  LET delta == (Px(clientX - d.startX) * 300) \div 72
  IN  Max(Px(50), IF d.edge = "right" THEN d.originalWidth + delta
                                       ELSE d.originalWidth - delta)

SnapsAt(d, clientX) ==
  LET candidateRight == d.originalX + CandidateWidth(d, clientX)
  IN  /\ candidateRight - ContentRightOf(d.originalX) <= Px(50)
      /\ ContentRightOf(d.originalX) - candidateRight <= Px(50)

\* C29: a move of the pointer commits the override
\* newWidth * originalAspectRatio / originalWidth, where newWidth puts the
\* right edge of the box on the content edge of its page when the candidate
\* right edge is within 50 pixels of it, and is the candidate width, at least
\* 50 pixels, otherwise.
C29_SnapToEdge ==
  [][ \A clientX \in SnapPointerXs : handleMouseMove(clientX) =>
        LET d == aspectDragState
            newWidth == IF SnapsAt(d, clientX)
                          THEN ContentRightOf(d.originalX) - d.originalX
                          ELSE CandidateWidth(d, clientX)
        IN  /\ d.assetId \in DOMAIN customAspectRatios'
            /\ RatioEq(customAspectRatios'[d.assetId],
                       Ratio(newWidth * d.originalAspectRatio.num,
                             d.originalWidth * d.originalAspectRatio.den))
            /\ ~SnapsAt(d, clientX) => newWidth >= Px(50) ]_vars

\* a box on the right half of a spread was dragged 50 pixels wider and ends
\* on the content edge of the right half
C29_Witness ==
  /\ Mounted
  /\ aspectDragState.active
  /\ aspectDragState.originalX = Px(2515 + 1200)
  /\ aspectDragState.assetId \in DOMAIN customAspectRatios
  /\ LET d == aspectDragState
     IN  RatioEq(customAspectRatios[d.assetId],
                 Ratio((Px(2515 + 2397) - d.originalX) * d.originalAspectRatio.num,
                       d.originalWidth * d.originalAspectRatio.den))

\* a narrow box was dragged narrower and keeps 50 pixels
C29_WitnessClamped ==
  /\ Mounted
  /\ aspectDragState.active
  /\ aspectDragState.originalWidth = Px(80)
  /\ aspectDragState.assetId \in DOMAIN customAspectRatios
  /\ LET d == aspectDragState
     IN  RatioEq(customAspectRatios[d.assetId],
                 Ratio(Px(50) * d.originalAspectRatio.num,
                       d.originalWidth * d.originalAspectRatio.den))
\* ------------------------------------------------------ the alignment pass
\* every box lies within the content area, horizontally
WithinContent(photos) ==
  \A k \in 1 .. Len(photos) :
    /\ photos[k].x >= options.margin
    /\ photos[k].x + photos[k].width <= options.margin + contentWidth(options)

\* C30: the pages after the alignment pass are the pages before it with the
\* boxes of each page moved horizontally by one amount; and a page whose
\* boxes lay within the content area and that is centered or right-aligned
\* has them within the content area afterwards.
C30_CommonShift ==
  Aligned =>
    /\ Len(pages) = Len(prePages)
    /\ \A p \in 1 .. Len(pages) :
         LET pre == prePages[p].photos
             post == pages[p].photos
         IN  /\ Len(post) = Len(pre)
             /\ pages[p] = [prePages[p] EXCEPT !.photos = post]
             /\ \A k \in 1 .. Len(pre) :
                  post[k] = [pre[k] EXCEPT !.x = @ + (post[1].x - pre[1].x)]
             /\ ( /\ options.pageAlignments.defined
                  /\ AlignmentOf(options.pageAlignments, pages[p].pageNumber)
                       \in {"center", "right"}
                  /\ WithinContent(pre) )
                => WithinContent(post)

\* a centered page of two boxes at different places was moved, and a
\* right-aligned page was moved
C30_Witness ==
  /\ Aligned
  /\ options.pageAlignments.defined
  /\ Len(pages) >= 2
  /\ AlignmentOf(options.pageAlignments, 1) = "center"
  /\ AlignmentOf(options.pageAlignments, 2) = "right"
  /\ Len(pages[1].photos) >= 2
  /\ prePages[1].photos[1].x # prePages[1].photos[2].x
  /\ WithinContent(prePages[1].photos)
  /\ WithinContent(prePages[2].photos)
  /\ pages[1].photos[1].x > prePages[1].photos[1].x
  /\ pages[2].photos[1].x > prePages[2].photos[1].x
\* ---------------------------------------------------------------- the App
\* C28: once Disconnect has run, and until a connection is made again, no
\* album is selected.
C28_NoAlbumAfterDisconnect ==
  ~immichConfig => selectedAlbum = NoAlbum

\* after a reconnect the album view is shown although no album id is stored
\* and no request is under way
StaleAlbumShown ==
  /\ AlbumViewShown
  /\ appStorage.lastAlbumId = NoAlbum
  /\ pendingLoads = {}
\* ------------------------------------------------ row heights set by hand
Overridden(row) == row.customHeight # 0

\* overrideHeight - naturalHeight of a row, 0 without a manual height
DeltaOf(row) == IF Overridden(row) THEN row.customHeight - row.height ELSE 0

\* the sum of the deltas of the rows above row k
RECURSIVE DeltaAbove(_, _)
DeltaAbove(rows, k) ==
  IF k <= 1 THEN 0 ELSE DeltaAbove(rows, k - 1) + DeltaOf(rows[k - 1])

\* C27: on every page, row k of the adjusted layout is the row of the
\* layout moved down by the deltas of the overridden rows above it on that
\* page, with the manual height in place of its own when it has one; its
\* boxes are moved by the same amount and their heights are scaled by
\* overrideHeight / naturalHeight; a row with no overridden row at or above it
\* is as the layout has it.
C27_ForwardPass ==
  /\ Len(adjustedPages) = Len(rowPages)
  /\ \A p \in 1 .. Len(rowPages) :
       LET rows == rowPages[p].rows
           adjusted == adjustedPages[p].rows
       IN  /\ Len(adjusted) = Len(rows)
           /\ adjustedPages[p].pageNumber = rowPages[p].pageNumber
           /\ adjustedPages[p].photos = FlatPhotos(adjusted)
           /\ \A k \in 1 .. Len(rows) :
                LET effective == IF Overridden(rows[k]) THEN rows[k].customHeight
                                                        ELSE rows[k].height
                IN  /\ adjusted[k].y = rows[k].y + DeltaAbove(rows, k)
                    /\ adjusted[k].height = effective
                    /\ Len(adjusted[k].photos) = Len(rows[k].photos)
                    /\ \A m \in 1 .. Len(rows[k].photos) :
                         LET photo == rows[k].photos[m]
                             box == adjusted[k].photos[m]
                         IN  /\ box.asset = photo.asset
                             /\ box.x = photo.x
                             /\ box.width = photo.width
                             /\ box.y = photo.y + DeltaAbove(rows, k)
                             /\ box.height * rows[k].height = photo.height * effective
                    /\ (\A j \in 1 .. k : ~Overridden(rows[j])) => adjusted[k] = rows[k]

\* the first row of page 1 was made 50 pixels lower and the second 100
\* pixels higher; the third row lies 50 pixels further down, and page 2 is as
\* it was laid out
C27_Witness ==
  /\ Len(rowPages) >= 2
  /\ rowPages[1].rows[1].customHeight = Px(150)
  /\ rowPages[1].rows[2].customHeight = Px(300)
  /\ ~Overridden(rowPages[1].rows[3])
  /\ adjustedPages[1].rows[2].y = rowPages[1].rows[2].y - Px(50)
  /\ adjustedPages[1].rows[2].photos[1].height = Px(300)
  /\ adjustedPages[1].rows[3].y = rowPages[1].rows[3].y + Px(50)
  /\ adjustedPages[1].rows[3].photos[2].y = rowPages[1].rows[3].photos[2].y + Px(50)
  /\ adjustedPages[2] = rowPages[2]

====
